---- MODULE Spec2Model ----
(***************************************************************************)
(* Model of the title / meta-description length normalizer of              *)
(* seo_fix_site.py.  A text is a sequence of one-character strings, so     *)
(* that lengths, prefixes, searches and concatenations are computed the    *)
(* way the Python code computes them.  Indices handed to the Python-style  *)
(* helpers (Slice, RFind) are 0-based as in the source.                    *)
(***************************************************************************)
EXTENDS Integers, Sequences, FiniteSets, TLC

(***************************************************************************)
(* Characters                                                              *)
(***************************************************************************)

\* The characters matched by \s (re) and removed by str.strip().
Whitespace == {" ", "\t", "\n", "\r"}

UpperCase == <<"A","B","C","D","E","F","G","H","I","J","K","L","M",
               "N","O","P","Q","R","S","T","U","V","W","X","Y","Z">>

LowerCase == <<"a","b","c","d","e","f","g","h","i","j","k","l","m",
               "n","o","p","q","r","s","t","u","v","w","x","y","z">>

UpperSet == {UpperCase[k] : k \in 1..26}

LowerOf == [c \in UpperSet |-> LowerCase[CHOOSE k \in 1..26 : UpperCase[k] = c]]

\* The characters texts are written with.
Characters ==
    Whitespace \cup UpperSet \cup {LowerCase[k] : k \in 1..26}
        \cup {"0","1","2","3","4","5","6","7","8","9"}
        \cup {".", "!", "?", ";", ",", ":", "|", "-", "u2013", "u2014", "&", "#",
              "(", ")", "<", ">", "/", "=", "\"", "'", "\\", "_"}

\* Python's None, which is no string.
None == <<"None">>

\* str.lower() on one character.
LowerChar(c) == IF c \in UpperSet THEN LowerOf[c] ELSE c

\* The function f of domain 1..n as the sequence of its values.
AsSeq(f) == SubSeq(f, 1, Len(f))

\* str.lower()
Lower(s) == AsSeq([i \in 1..Len(s) |-> LowerChar(s[i])])

(***************************************************************************)
(* Python string primitives                                                *)
(***************************************************************************)

Min2(a, b) == IF a <= b THEN a ELSE b

Max2(a, b) == IF a >= b THEN a ELSE b

\* s[a:b] for 0 <= a, 0 <= b (Python clamps b to len(s)).
Slice(s, a, b) == SubSeq(s, a + 1, Min2(b, Len(s)))

\* sub occurs in s at the 0-based index i.
MatchAt(s, sub, i) ==
    /\ i >= 0
    /\ i + Len(sub) <= Len(s)
    /\ \A j \in 1..Len(sub) : s[i + j] = sub[j]

\* The highest 0-based index in lo..i at which sub occurs in s, else -1.
RFindDown(s, sub, i, lo) ==
    LET hits == {j \in lo..i : MatchAt(s, sub, j)}
    IN  IF hits = {} THEN -1 ELSE CHOOSE j \in hits : \A k \in hits : k <= j

\* s.rfind(sub, a, b): highest 0-based index of sub inside s[a:b], else -1.
RFind(s, sub, a, b) == RFindDown(s, sub, Min2(b, Len(s)) - Len(sub), a)

\* sub in s
Contains(s, sub) == \E i \in 0..(Len(s) - Len(sub)) : MatchAt(s, sub, i)

RECURSIVE FirstNonSpace(_, _)
FirstNonSpace(s, i) ==
    IF i > Len(s) THEN Len(s) + 1
    ELSE IF s[i] \notin Whitespace THEN i
    ELSE FirstNonSpace(s, i + 1)

RECURSIVE LastNonSpace(_, _)
LastNonSpace(s, i) ==
    IF i < 1 THEN 0
    ELSE IF s[i] \notin Whitespace THEN i
    ELSE LastNonSpace(s, i - 1)

\* str.strip()
Strip(s) == SubSeq(s, FirstNonSpace(s, 1), LastNonSpace(s, Len(s)))

\* re.sub(r"\s+", " ", (text or "").strip())
_normalize_space(text) ==
    LET s == Strip(text)
        idx == [i \in 1..Len(s) |-> i]
        Keep(i) == s[i] \notin Whitespace \/ s[i - 1] \notin Whitespace
        kept == SelectSeq(idx, Keep)
    IN  AsSeq([k \in 1..Len(kept) |->
            IF s[kept[k]] \in Whitespace THEN " " ELSE s[kept[k]]])

RECURSIVE Join(_, _)
\* sep.join(parts)
Join(parts, sep) ==
    IF Len(parts) = 0 THEN <<>>
    ELSE IF Len(parts) = 1 THEN parts[1]
    ELSE parts[1] \o sep \o Join(Tail(parts), sep)

(***************************************************************************)
(* Program constants                                                       *)
(***************************************************************************)

\* Width of the window, left of max_len, searched for a sentence end.
SENTENCE_WINDOW == 60

\* The sentence ends tried, in order.
PUNCTS == << <<".", " ">>, <<"!", " ">>, <<"?", " ">>, <<";", " ">> >>

\* "Serving Detroit & Metro Detroit." and "Call (313) 389-6324."
suffixes ==
    << <<"S","e","r","v","i","n","g"," ","D","e","t","r","o","i","t"," ","&"," ",
         "M","e","t","r","o"," ","D","e","t","r","o","i","t",".">>,
       <<"C","a","l","l"," ","(","3","1","3",")"," ","3","8","9","-","6","3","2","4",".">> >>

\* "Licensed & insured."
extra == <<"L","i","c","e","n","s","e","d"," ","&"," ","i","n","s","u","r","e","d",".">>

\* "Midwest Flip LLC"
BRAND == <<"M","i","d","w","e","s","t"," ","F","l","i","p"," ","L","L","C">>

\* "Midwest Flip LLC | Detroit Home Remodeling"
fallback ==
    <<"M","i","d","w","e","s","t"," ","F","l","i","p"," ","L","L","C"," ","|"," ",
      "D","e","t","r","o","i","t"," ","H","o","m","e"," ",
      "R","e","m","o","d","e","l","i","n","g">>

Detroit == <<"D","e","t","r","o","i","t">>

Michigan == <<"M","i","c","h","i","g","a","n">>

\* " | "
BAR == <<" ", "|", " ">>

kw_midwest_flip == <<"m","i","d","w","e","s","t"," ","f","l","i","p">>

kw_midwest == <<"m","i","d","w","e","s","t">>

kw_flip == <<"f","l","i","p">>

kw_detroit == <<"d","e","t","r","o","i","t">>

\* "detroit", "metro detroit", "remodel", "contractor", "builder", "services"
keywords ==
    << <<"d","e","t","r","o","i","t">>,
       <<"m","e","t","r","o"," ","d","e","t","r","o","i","t">>,
       <<"r","e","m","o","d","e","l">>,
       <<"c","o","n","t","r","a","c","t","o","r">>,
       <<"b","u","i","l","d","e","r">>,
       <<"s","e","r","v","i","c","e","s">> >>

\* The characters of the class [|\-–—:] that split a title into segments
\* (the en dash and the em dash are written by their code points).
SEPARATORS == {"|", "-", "u2013", "u2014", ":"}

\* Defaults of --title-min, --title-max, --desc-min, --desc-max.
TITLE_MIN == 30

TITLE_MAX == 60

DESC_MIN == 70

DESC_MAX == 160

(***************************************************************************)
(* _trim_to_word_boundary                                                  *)
(***************************************************************************)

\* The lowest 0-based index in i..hi at which sub occurs in s, else -1.
FindUp(s, sub, i, hi) ==
    LET hits == {j \in i..hi : MatchAt(s, sub, j)}
    IN  IF hits = {} THEN -1 ELSE CHOOSE j \in hits : \A k \in hits : j <= k

RECURSIVE SentenceCutFirst(_, _, _, _)
\* Mutant: the cut is made after the first occurrence of the sentence end
\* in the window (find in place of rfind).
SentenceCutFirst(window, window_start, puncts, k) ==
    IF k > Len(puncts) THEN -1
    ELSE LET idx == FindUp(window, puncts[k], 0, Len(window) - Len(puncts[k]))
         IN  IF idx # -1 THEN window_start + idx + 1
             ELSE SentenceCutFirst(window, window_start, puncts, k + 1)

RECURSIVE SentenceCut(_, _, _, _)
\* The loop over the sentence ends: the cut (0-based, exclusive) after the
\* last occurrence, in the window, of the first sentence end that occurs
\* there; -1 when none occurs.
SentenceCut(window, window_start, puncts, k) ==
    IF k > Len(puncts) THEN -1
    ELSE LET idx == RFind(window, puncts[k], 0, Len(window))
         IN  IF idx # -1 THEN window_start + idx + 1
             ELSE SentenceCut(window, window_start, puncts, k + 1)

\* Mutant: the last space is searched in the whole text, not up to max_len.
TrimAtAnySpace(text0, max_len) ==
    LET text == _normalize_space(text0)
        window_start == Max2(0, max_len - SENTENCE_WINDOW)
        window == Slice(text, window_start, max_len)
        scut == SentenceCut(window, window_start, PUNCTS, 1)
        cut == RFind(text, <<" ">>, 0, Len(text))
    IN  IF Len(text) <= max_len THEN text
        ELSE IF scut # -1 THEN Strip(Slice(text, 0, scut))
        ELSE IF cut <= 0 THEN Strip(Slice(text, 0, max_len))
        ELSE Strip(Slice(text, 0, cut))

\* Mutant: a text that is too long is always cut at max_len.
TrimHard(text0, max_len) ==
    LET text == _normalize_space(text0)
    IN  IF Len(text) <= max_len THEN text
        ELSE Strip(Slice(text, 0, max_len))

_trim_to_word_boundary(text0, max_len) ==
    LET text == _normalize_space(text0)
        window_start == Max2(0, max_len - SENTENCE_WINDOW)
        window == Slice(text, window_start, max_len)
        scut == SentenceCut(window, window_start, PUNCTS, 1)
        cut == RFind(text, <<" ">>, 0, max_len + 1)
    IN  IF Len(text) <= max_len THEN text
        ELSE IF scut # -1 THEN Strip(Slice(text, 0, scut))
        ELSE IF cut <= 0 THEN Strip(Slice(text, 0, max_len))
        ELSE Strip(Slice(text, 0, cut))

(***************************************************************************)
(* _extend_description                                                     *)
(***************************************************************************)

RECURSIVE ExtendLoopNoFit(_, _, _, _)
\* Mutant: a suffix is appended without looking at max_len.
ExtendLoopNoFit(text, k, min_len, max_len) ==
    IF k > Len(suffixes) THEN <<text, FALSE>>
    ELSE LET suffix == suffixes[k]
             candidate == _normalize_space(
                 IF Len(text) > 0 THEN Strip(text \o <<" ">> \o suffix) ELSE suffix)
         IN  IF Len(candidate) >= min_len THEN <<candidate, TRUE>>
             ELSE ExtendLoopNoFit(candidate, k + 1, min_len, max_len)

RECURSIVE ExtendLoopNoStop(_, _, _, _)
\* Mutant: the loop does not return once min_len is reached.
ExtendLoopNoStop(text, k, min_len, max_len) ==
    IF k > Len(suffixes) THEN <<text, Len(text) >= min_len>>
    ELSE LET suffix == suffixes[k]
             candidate == _normalize_space(
                 IF Len(text) > 0 THEN Strip(text \o <<" ">> \o suffix) ELSE suffix)
         IN  IF Len(candidate) > max_len
             THEN ExtendLoopNoStop(text, k + 1, min_len, max_len)
             ELSE ExtendLoopNoStop(candidate, k + 1, min_len, max_len)

RECURSIVE ExtendLoopReversed(_, _, _, _)
\* Mutant: the suffixes are tried from the last one to the first.
ExtendLoopReversed(text, k, min_len, max_len) ==
    IF k > Len(suffixes) THEN <<text, FALSE>>
    ELSE LET suffix == suffixes[Len(suffixes) + 1 - k]
             candidate == _normalize_space(
                 IF Len(text) > 0 THEN Strip(text \o <<" ">> \o suffix) ELSE suffix)
         IN  IF Len(candidate) > max_len
             THEN ExtendLoopReversed(text, k + 1, min_len, max_len)
             ELSE IF Len(candidate) >= min_len THEN <<candidate, TRUE>>
             ELSE ExtendLoopReversed(candidate, k + 1, min_len, max_len)

RECURSIVE ExtendLoop(_, _, _, _)
\* The loop over the suffixes: <<text, returned>> where returned tells that
\* the loop left the function by its return statement.
ExtendLoop(text, k, min_len, max_len) ==
    IF k > Len(suffixes) THEN <<text, FALSE>>
    ELSE LET suffix == suffixes[k]
             candidate == _normalize_space(
                 IF Len(text) > 0 THEN Strip(text \o <<" ">> \o suffix) ELSE suffix)
         IN  IF Len(candidate) > max_len
             THEN ExtendLoop(text, k + 1, min_len, max_len)
             ELSE IF Len(candidate) >= min_len THEN <<candidate, TRUE>>
             ELSE ExtendLoop(candidate, k + 1, min_len, max_len)

\* Mutant: the text left by the loop is returned without the pad.
ExtendWithoutPad(text0, min_len, max_len) ==
    LET text == _normalize_space(text0)
        looped == ExtendLoop(text, 1, min_len, max_len)
    IN  IF Len(text) >= min_len THEN _trim_to_word_boundary(text, max_len)
        ELSE looped[1]

_extend_description(text0, min_len, max_len) ==
    LET text == _normalize_space(text0)
        looped == ExtendLoop(text, 1, min_len, max_len)
        candidate == _normalize_space(Strip(looped[1] \o <<" ">> \o extra))
    IN  IF Len(text) >= min_len THEN _trim_to_word_boundary(text, max_len)
        ELSE IF looped[2] THEN looped[1]
        ELSE IF Len(candidate) <= max_len THEN candidate
        ELSE looped[1]

(***************************************************************************)
(* _smart_title                                                            *)
(***************************************************************************)

\* re.split(r"[|\-–—:]", title): the pieces between the separator characters.
Split(title) ==
    LET idx == [i \in 1..Len(title) |-> i]
        IsSep(i) == title[i] \in SEPARATORS
        seps == SelectSeq(idx, IsSep)
        n == Len(seps)
        From(k) == IF k = 1 THEN 1 ELSE seps[k - 1] + 1
        To(k) == IF k = n + 1 THEN Len(title) ELSE seps[k] - 1
    IN  AsSeq([k \in 1..(n + 1) |-> SubSeq(title, From(k), To(k))])

NonEmpty(p) == Len(p) > 0

\* parts = [p.strip() for p in re.split(...) if p.strip()]
Parts(title) ==
    LET raw == Split(title)
    IN  SelectSeq(AsSeq([k \in 1..Len(raw) |-> Strip(raw[k])]), NonEmpty)

\* "midwest" in p.lower() and "flip" in p.lower()
IsBrandPart(p) == Contains(Lower(p), kw_midwest) /\ Contains(Lower(p), kw_flip)

RECURSIVE FirstBrand(_, _)
\* The loop that picks the first brand segment, else "Midwest Flip LLC".
FirstBrand(parts, k) ==
    IF k > Len(parts) THEN BRAND
    ELSE IF IsBrandPart(parts[k]) THEN parts[k]
    ELSE FirstBrand(parts, k + 1)

\* sum(1 for k in keywords if k in p.lower())
KeywordCount(p) ==
    LET lowered == Lower(p)
    IN  Cardinality({k \in 1..Len(keywords) : Contains(lowered, keywords[k])})

\* The sort key (-count, len(p)) of a segment.
SortKey(p) == <<0 - KeywordCount(p), Len(p)>>

\* Tuple comparison of two sort keys.
KeyLess(a, b) == a[1] < b[1] \/ (a[1] = b[1] /\ a[2] < b[2])

\* Mutant: the descriptors stay in document order.
descriptors_unsorted(descriptors) == descriptors

\* sorted(descriptors, key=...): stable, ascending in the key.
descriptors_sorted(descriptors) ==
    LET n == Len(descriptors)
        key == AsSeq([i \in 1..n |-> SortKey(descriptors[i])])
        rank == AsSeq([i \in 1..n |->
                    Cardinality({j \in 1..n :
                        \/ KeyLess(key[j], key[i])
                        \/ (key[j] = key[i] /\ j < i)}) + 1])
    IN  AsSeq([r \in 1..n |-> descriptors[CHOOSE i \in 1..n : rank[i] = r]])

RECURSIVE CandidateParts(_, _, _, _, _)
\* The loop that appends descriptors to candidate_parts.
CandidateParts(candidate_parts, sorted, k, min_len, max_len) ==
    IF k > Len(sorted) THEN candidate_parts
    ELSE LET cand == Join(Append(candidate_parts, sorted[k]), BAR)
             next == IF Len(cand) <= max_len
                     THEN Append(candidate_parts, sorted[k])
                     ELSE candidate_parts
         IN  IF Len(Join(next, BAR)) >= min_len THEN next
             ELSE CandidateParts(next, sorted, k + 1, min_len, max_len)

\* Mutant: a title of exactly min_len characters is expanded too.
ExpandInclusive(title, min_len, max_len) ==
    LET branded == IF Contains(Lower(title), kw_midwest_flip) THEN title
                   ELSE IF Len(title) > 0
                        THEN _normalize_space(title \o BAR \o BRAND)
                        ELSE BRAND
        add == IF Contains(Lower(branded), kw_detroit) THEN Michigan ELSE Detroit
        candidate == _normalize_space(branded \o BAR \o add)
    IN  IF Len(title) > min_len THEN title
        ELSE IF Len(branded) > min_len THEN branded
        ELSE IF Len(candidate) <= max_len THEN candidate
        ELSE branded

\* Mutant: the brand is not appended to a short title that lacks it.
ExpandNoBrand(title, min_len, max_len) ==
    LET add == IF Contains(Lower(title), kw_detroit) THEN Michigan ELSE Detroit
        candidate == _normalize_space(title \o BAR \o add)
    IN  IF Len(title) >= min_len THEN title
        ELSE IF Len(candidate) <= max_len THEN candidate
        ELSE title

\* The "Expand if too short" block.
Expand(title, min_len, max_len) ==
    LET branded == IF Contains(Lower(title), kw_midwest_flip) THEN title
                   ELSE IF Len(title) > 0
                        THEN _normalize_space(title \o BAR \o BRAND)
                        ELSE BRAND
        add == IF Contains(Lower(branded), kw_detroit) THEN Michigan ELSE Detroit
        candidate == _normalize_space(branded \o BAR \o add)
    IN  IF Len(title) >= min_len THEN title
        ELSE IF Len(branded) >= min_len THEN branded
        ELSE IF Len(candidate) <= max_len THEN candidate
        ELSE branded

\* The "Shorten if too long" block.
Shorten(title, min_len, max_len) ==
    LET parts == Parts(title)
        brand == FirstBrand(parts, 1)
        NotBrand(p) == p # brand
        descriptors == SelectSeq(parts, NotBrand)
        joined == Join(CandidateParts(<<brand>>, descriptors_sorted(descriptors),
                                      1, min_len, max_len), BAR)
    IN  IF Len(title) <= max_len THEN title
        ELSE IF Len(joined) > max_len THEN _trim_to_word_boundary(joined, max_len)
        ELSE joined

\* Mutant: no worst-case fallback.
FinalClampNoFallback(title0, min_len, max_len) ==
    _trim_to_word_boundary(title0, max_len)

\* Mutant: the function returns only from inside the fallback test, and falls
\* off its end, returning None, when the title is short and no fallback fits.
FinalClampFallsOff(title0, min_len, max_len) ==
    LET title == _trim_to_word_boundary(title0, max_len)
    IN  IF Len(title) >= min_len THEN title
        ELSE IF min_len <= Len(fallback) /\ Len(fallback) <= max_len THEN fallback
        ELSE None

\* The "Final clamp" and the worst-case fallback.
FinalClamp(title0, min_len, max_len) ==
    LET title == _trim_to_word_boundary(title0, max_len)
    IN  IF Len(title) < min_len /\ min_len <= Len(fallback) /\ Len(fallback) <= max_len
        THEN fallback
        ELSE title

_smart_title(title, min_len, max_len) ==
    FinalClamp(Shorten(Expand(_normalize_space(title), min_len, max_len),
                       min_len, max_len),
               min_len, max_len)

\* The description steps of fix_file, from old_desc to d2.
FixDescription(old_desc, desc_min, desc_max) ==
    LET d1 == IF Len(old_desc) > desc_max
              THEN _trim_to_word_boundary(old_desc, desc_max) ELSE old_desc
        d2 == IF Len(d1) < desc_min
              THEN _extend_description(d1, desc_min, desc_max) ELSE d1
    IN  _trim_to_word_boundary(d2, desc_max)

(***************************************************************************)
(* HTML text: html.escape, html.unescape                                   *)
(***************************************************************************)

\* s.find(sub, a): lowest 0-based index >= a of sub in s, else -1.
Find(s, sub, a) ==
    LET hits == {i \in a..(Len(s) - Len(sub)) : MatchAt(s, sub, i)}
    IN  IF hits = {} THEN -1 ELSE CHOOSE i \in hits : \A j \in hits : i <= j

\* The lowest 1-based index >= i of a character of class in s, else 0.
FirstIn(s, class, i) ==
    LET hits == {k \in i..Len(s) : s[k] \in class}
    IN  IF hits = {} THEN 0 ELSE CHOOSE k \in hits : \A j \in hits : k <= j

Digits == <<"0","1","2","3","4","5","6","7","8","9">>

DigitSet == {Digits[k] : k \in 1..10}

OctDigitSet == {Digits[k] : k \in 1..8}

HexDigitSet == DigitSet \cup {"a","b","c","d","e","f","A","B","C","D","E","F"}

\* The value of one decimal or hexadecimal digit.
DigitValue(c) ==
    IF c \in DigitSet THEN (CHOOSE k \in 1..10 : Digits[k] = c) - 1
    ELSE IF c \in {"a", "A"} THEN 10
    ELSE IF c \in {"b", "B"} THEN 11
    ELSE IF c \in {"c", "C"} THEN 12
    ELSE IF c \in {"d", "D"} THEN 13
    ELSE IF c \in {"e", "E"} THEN 14
    ELSE 15

RECURSIVE IntOf(_, _)
\* int(s, base) of a run of digits.
IntOf(s, base) ==
    IF Len(s) = 0 THEN 0
    ELSE IntOf(SubSeq(s, 1, Len(s) - 1), base) * base + DigitValue(s[Len(s)])

\* The printable ASCII characters, from code point 32 to 126 (the grave
\* accent is written "u0060").
Ascii ==
    <<" ","!","\"","#","$","%","&","'","(",")","*","+",",","-",".","/",
      "0","1","2","3","4","5","6","7","8","9",":",";","<","=",">","?",
      "@","A","B","C","D","E","F","G","H","I","J","K","L","M","N","O",
      "P","Q","R","S","T","U","V","W","X","Y","Z","[","\\","]","^","_",
      "u0060","a","b","c","d","e","f","g","h","i","j","k","l","m","n","o",
      "p","q","r","s","t","u","v","w","x","y","z","{","|","}","~">>

\* chr(n); code points outside printable ASCII and the whitespace controls
\* are all rendered as the one character "chr".
Chr(n) ==
    IF n >= 32 /\ n <= 126 THEN Ascii[n - 31]
    ELSE IF n = 9 THEN "\t"
    ELSE IF n = 10 THEN "\n"
    ELSE IF n = 13 THEN "\r"
    ELSE "chr"

\* Mutant: nothing is escaped.
EscapeNothing(c, quote) == <<c>>

\* html.escape on one character.
EscapeChar(c, quote) ==
    IF c = "&" THEN <<"&","a","m","p",";">>
    ELSE IF c = "<" THEN <<"&","l","t",";">>
    ELSE IF c = ">" THEN <<"&","g","t",";">>
    ELSE IF quote /\ c = "\"" THEN <<"&","q","u","o","t",";">>
    ELSE IF quote /\ c = "'" THEN <<"&","#","x","2","7",";">>
    ELSE <<c>>

RECURSIVE EscapeFrom(_, _, _)
\* html.escape of s from the 1-based index i on: the text up to the next
\* character to escape, what it is escaped as, and the rest.
EscapeFrom(s, i, quote) ==
    LET k == FirstIn(s, {"&", "<", ">", "\"", "'"}, i)
    IN  IF k = 0 THEN SubSeq(s, i, Len(s))
        ELSE SubSeq(s, i, k - 1) \o EscapeChar(s[k], quote)
                 \o EscapeFrom(s, k + 1, quote)

\* html.escape(s, quote)
HtmlEscape(s, quote) == EscapeFrom(s, 1, quote)

\* html.escape(text, quote=False)
_escape_text(text) == HtmlEscape(text, FALSE)

\* html.escape(text, quote=True)
_escape_attr(text) == HtmlEscape(text, TRUE)

\* The named character references of html.entities.html5 that the texts
\* dealt with can spell, as <<name, value>>.
NamedRefs ==
    { << <<"a","m","p",";">>, "&" >>,      << <<"a","m","p">>, "&" >>,
      << <<"A","M","P",";">>, "&" >>,      << <<"A","M","P">>, "&" >>,
      << <<"l","t",";">>, "<" >>,          << <<"l","t">>, "<" >>,
      << <<"L","T",";">>, "<" >>,          << <<"L","T">>, "<" >>,
      << <<"g","t",";">>, ">" >>,          << <<"g","t">>, ">" >>,
      << <<"G","T",";">>, ">" >>,          << <<"G","T">>, ">" >>,
      << <<"q","u","o","t",";">>, "\"" >>, << <<"q","u","o","t">>, "\"" >>,
      << <<"Q","U","O","T",";">>, "\"" >>, << <<"Q","U","O","T">>, "\"" >>,
      << <<"a","p","o","s",";">>, "'" >> }

IsNamedRef(name) == \E r \in NamedRefs : r[1] = name

NamedRefValue(name) == (CHOOSE r \in NamedRefs : r[1] = name)[2]

RECURSIVE RunLength(_, _, _)
\* Number of consecutive characters of class from the 1-based index i on.
RunLength(s, i, class) ==
    IF i > Len(s) \/ s[i] \notin class THEN 0
    ELSE 1 + RunLength(s, i + 1, class)

RECURSIVE NameRunLength(_, _, _)
\* The same for [^\t\n\f <&#;], at most 32 characters.
NameRunLength(s, i, n) ==
    IF i > Len(s) \/ n = 32 \/ s[i] \in {"\t", "\n", "\f", " ", "<", "&", "#", ";"}
    THEN n
    ELSE NameRunLength(s, i + 1, n + 1)

\* 1 when s holds ';' at the 1-based index i, else 0.
Semicolon(s, i) == IF i <= Len(s) /\ s[i] = ";" THEN 1 ELSE 0

\* Length of what _charref matches after the '&' at the 1-based index i:
\* #[0-9]+;? or #[xX][0-9a-fA-F]+;? or [^\t\n\f <&#;]{1,32};?, 0 if nothing.
CharRefLength(s, i) ==
    LET dec == RunLength(s, i + 2, DigitSet)
        hex == RunLength(s, i + 3, HexDigitSet)
        name == NameRunLength(s, i + 1, 0)
    IN  IF i + 1 <= Len(s) /\ s[i + 1] = "#"
        THEN IF dec > 0 THEN 1 + dec + Semicolon(s, i + 2 + dec)
             ELSE IF i + 2 <= Len(s) /\ s[i + 2] \in {"x", "X"} /\ hex > 0
                  THEN 2 + hex + Semicolon(s, i + 3 + hex)
             ELSE 0
        ELSE IF name > 0 THEN name + Semicolon(s, i + 1 + name)
        ELSE 0

RECURSIVE LongestRefPrefix(_, _)
\* for x in range(len(s)-1, 1, -1): if s[:x] in html5
LongestRefPrefix(ref, x) ==
    IF x < 2 THEN 0
    ELSE IF IsNamedRef(SubSeq(ref, 1, x)) THEN x
    ELSE LongestRefPrefix(ref, x - 1)

\* _replace_charref on the text matched after '&'.
ReplaceCharRef(ref) ==
    LET digits == SelectSeq(ref, LAMBDA c : c \notin {"#", ";", "x", "X"})
        x == LongestRefPrefix(ref, Len(ref) - 1)
    IN  IF ref[1] = "#"
        THEN <<Chr(IntOf(digits, IF ref[2] \in {"x", "X"} THEN 16 ELSE 10))>>
        ELSE IF IsNamedRef(ref) THEN <<NamedRefValue(ref)>>
        ELSE IF x > 0
             THEN <<NamedRefValue(SubSeq(ref, 1, x))>> \o SubSeq(ref, x + 1, Len(ref))
        ELSE <<"&">> \o ref

RECURSIVE UnescapeFrom(_, _)
\* _charref.sub(_replace_charref, s) from the 1-based index i on: the text
\* up to the next '&', what stands for the reference there, and the rest.
UnescapeFrom(s, i) ==
    LET k == FirstIn(s, {"&"}, i)
        m == CharRefLength(s, k)
    IN  IF k = 0 THEN SubSeq(s, i, Len(s))
        ELSE IF m = 0 THEN SubSeq(s, i, k) \o UnescapeFrom(s, k + 1)
        ELSE SubSeq(s, i, k - 1) \o ReplaceCharRef(SubSeq(s, k + 1, k + m))
                 \o UnescapeFrom(s, k + m + 1)

\* html.unescape(s)
Unescape(s) == UnescapeFrom(s, 1)

(***************************************************************************)
(* The title element and the meta tags of a document                       *)
(***************************************************************************)

\* TITLE_RE.search(doc): <<m.start(1), m.start(2), m.end(2)>>, or None. The
\* opening tag ends at the first '>', the content at the first '</title>'.
TitleMatch(doc) ==
    LET low == Lower(doc)
        open == Find(low, <<"<","t","i","t","l","e">>, 0)
        gt == IF open = -1 THEN -1 ELSE Find(doc, <<">">>, open + 6)
        close == IF gt = -1 THEN -1
                 ELSE Find(low, <<"<","/","t","i","t","l","e",">">>, gt + 1)
    IN  IF close = -1 THEN None ELSE <<open, gt + 1, close>>

\* Mutant: the new title is put in as it is.
ReplaceTitleUnescaped(doc, new_title) ==
    LET m == TitleMatch(doc)
    IN  IF m = None THEN <<doc, FALSE>>
        ELSE <<Slice(doc, 0, m[2]) \o new_title \o Slice(doc, m[3], Len(doc)), TRUE>>

\* <<replaced, ok>>
_find_and_replace_title(doc, new_title) ==
    LET m == TitleMatch(doc)
    IN  IF m = None THEN <<doc, FALSE>>
        ELSE <<Slice(doc, 0, m[2]) \o _escape_text(new_title)
                   \o Slice(doc, m[3], Len(doc)), TRUE>>

_extract_title(doc) ==
    LET m == TitleMatch(doc)
    IN  IF m = None THEN None
        ELSE _normalize_space(Unescape(Slice(doc, m[2], m[3])))

\* The characters matched by \w.
WordChars ==
    UpperSet \cup {LowerCase[k] : k \in 1..26} \cup DigitSet \cup {"_"}

Quotes == {"\"", "'"}

\* attr=["']name["'] in its four spellings.
AttrNeedles(attr, name) ==
    {attr \o <<"=", q1>> \o name \o <<q2>> : q1 \in Quotes, q2 \in Quotes}

\* The tag doc[i:j+1] matches <meta\b[^>]*\battr=["']name["'][^>]*>.
TagNames(low, i, j, needles) ==
    /\ low[i + 6] \notin WordChars
    /\ \E n \in needles : \E q \in (i + 6)..(j - Len(n)) :
           MatchAt(low, n, q) /\ low[q] \notin WordChars

RECURSIVE MetaMatchFrom(_, _, _, _)
MetaMatchFrom(doc, low, needles, from) ==
    LET i == Find(low, <<"<","m","e","t","a">>, from)
        j == IF i = -1 THEN -1 ELSE Find(doc, <<">">>, i + 5)
    IN  IF j = -1 THEN None
        ELSE IF TagNames(low, i, j, needles) THEN <<i, j + 1>>
        ELSE MetaMatchFrom(doc, low, needles, i + 1)

\* pat.search(doc) for the first meta tag whose attr is name:
\* <<m.start(1), m.end(1)>>, or None.
MetaMatch(doc, attr, name) ==
    MetaMatchFrom(doc, Lower(doc), AttrNeedles(attr, name), 0)

RECURSIVE SkipSpace(_, _)
\* The 0-based index of the first character at or after i that \s* leaves.
SkipSpace(s, i) ==
    IF i < Len(s) /\ s[i + 1] \in Whitespace THEN SkipSpace(s, i + 1) ELSE i

\* The lowest 0-based index >= a of a quote character in s, else -1.
FindQuote(s, a) ==
    LET dq == Find(s, <<"\"">>, a)
        sq == Find(s, <<"'">>, a)
    IN  IF dq = -1 THEN sq ELSE IF sq = -1 THEN dq ELSE Min2(dq, sq)

content == <<"c","o","n","t","e","n","t">>

\* \bcontent\s*= at the 0-based index c of tag: the index after '=', else -1.
ContentEquals(tag, low, c) ==
    LET e == SkipSpace(tag, c + 7)
    IN  IF /\ MatchAt(low, content, c)
           /\ (c = 0 \/ low[c] \notin WordChars)
           /\ e < Len(tag) /\ tag[e + 1] = "="
        THEN e + 1 ELSE -1

\* re.search(r"\bcontent\s*=", tag)
HasContent(tag) ==
    LET low == Lower(tag)
    IN  \E c \in 0..(Len(tag) - 1) : ContentEquals(tag, low, c) # -1

\* (\bcontent\s*=\s*["'])(.*?)(["']) at the 0-based index c of tag:
\* <<m.start(1), m.start(2), m.end(2)>>, or None.
ContentAt(tag, low, c) ==
    LET e == ContentEquals(tag, low, c)
        a == IF e = -1 THEN -1 ELSE SkipSpace(tag, e)
        z == IF a = -1 \/ a >= Len(tag) \/ tag[a + 1] \notin Quotes THEN -1
             ELSE FindQuote(tag, a + 1)
    IN  IF z = -1 THEN None ELSE <<c, a + 1, z>>

\* The leftmost match of that pattern in tag, or None.
ContentMatch(tag) ==
    LET low == Lower(tag)
        found == {c \in 0..(Len(tag) - 1) : ContentAt(tag, low, c) # None}
    IN  IF found = {} THEN None
        ELSE ContentAt(tag, low, CHOOSE c \in found : \A d \in found : c <= d)

\* What a call that raised re.error is modelled as returning.
Raise == <<"re.error">>

\* a followed by b, unless the rest b raised.
Cat(a, b) == IF b = Raise THEN Raise ELSE a \o b

\* The characters \a \b \f \n \r \t \v \\ stand for in a template.
TemplateEscapes ==
    [c \in {"a", "b", "f", "n", "r", "t", "v", "\\"} |->
        IF c = "a" THEN Chr(7) ELSE IF c = "b" THEN Chr(8)
        ELSE IF c = "f" THEN "\f" ELSE IF c = "n" THEN "\n"
        ELSE IF c = "r" THEN "\r" ELSE IF c = "t" THEN "\t"
        ELSE IF c = "v" THEN Chr(11) ELSE "\\"]

\* The character of t at the 1-based index i, "" past the end.
CharAt(t, i) == IF i <= Len(t) THEN t[i] ELSE ""

RECURSIVE TemplateFrom(_, _, _)
\* What re makes of the replacement template t from the 1-based index i on
\* (parse_template), groups being <<\0, \1, \2, \3>>; Raise where it raises.
TemplateFrom(t, i, groups) ==
    IF i > Len(t) THEN <<>>
    ELSE IF t[i] # "\\"
    THEN LET k == FirstIn(t, {"\\"}, i)
         IN  IF k = 0 THEN SubSeq(t, i, Len(t))
             ELSE Cat(SubSeq(t, i, k - 1), TemplateFrom(t, k, groups))
    ELSE IF i = Len(t) THEN Raise
    ELSE LET c == t[i + 1]
             gt == Find(t, <<">">>, i + 2)
             name == Slice(t, i + 2, gt)
             octal == RunLength(t, i + 2, OctDigitSet)
         IN  IF c = "g"
             THEN IF /\ CharAt(t, i + 2) = "<" /\ gt > i + 2
                     /\ \A k \in 1..Len(name) : name[k] \in DigitSet
                     /\ IntOf(name, 10) < Len(groups)
                  THEN Cat(groups[IntOf(name, 10) + 1],
                           TemplateFrom(t, gt + 2, groups))
                  ELSE Raise
             ELSE IF c = "0"
             THEN LET n == Min2(octal, 2)
                  IN  Cat(<<Chr(IntOf(SubSeq(t, i + 2, i + 1 + n), 8))>>,
                          TemplateFrom(t, i + 2 + n, groups))
             ELSE IF c \in DigitSet
             THEN IF CharAt(t, i + 2) \in DigitSet
                  THEN IF c \in OctDigitSet /\ octal >= 2
                       THEN IF IntOf(SubSeq(t, i + 1, i + 3), 8) > 255 THEN Raise
                            ELSE Cat(<<Chr(IntOf(SubSeq(t, i + 1, i + 3), 8))>>,
                                     TemplateFrom(t, i + 4, groups))
                       ELSE Raise
                  ELSE IF DigitValue(c) < Len(groups)
                       THEN Cat(groups[DigitValue(c) + 1],
                                TemplateFrom(t, i + 2, groups))
                       ELSE Raise
             ELSE IF c \in DOMAIN TemplateEscapes
             THEN Cat(<<TemplateEscapes[c]>>, TemplateFrom(t, i + 2, groups))
             ELSE IF c \in UpperSet \/ c \in {LowerCase[k] : k \in 1..26}
             THEN Raise
             ELSE Cat(<<"\\", c>>, TemplateFrom(t, i + 2, groups))

\* The groups <<\0, \1, \2, \3>> of the match cm of the content pattern in
\* tag.
ContentGroups(tag, cm) ==
    IF cm = None THEN << <<>>, <<>>, <<>>, <<>> >>
    ELSE << Slice(tag, cm[1], cm[3] + 1), Slice(tag, cm[1], cm[2]),
            Slice(tag, cm[2], cm[3]), Slice(tag, cm[3], cm[3] + 1) >>

\* The tag with the match cm replaced by repl, the template expanded.
Substituted(tag, cm, repl) ==
    IF repl = Raise THEN Raise
    ELSE IF cm = None THEN tag
    ELSE Slice(tag, 0, cm[1]) \o repl \o Slice(tag, cm[3] + 1, Len(tag))

\* The substitution, cm being the leftmost match of the pattern in tag.
SubMatched(tag, esc, cm) ==
    Substituted(tag, cm,
                TemplateFrom(<<"\\", "1">> \o esc \o <<"\\", "3">>, 1,
                             ContentGroups(tag, cm)))

\* re.sub(r"(\bcontent\s*=\s*[\"'])(.*?)([\"'])", r"\1" + esc + r"\3", tag,
\* count=1): the template is compiled whether or not the pattern matches.
SubContent(tag, esc) == SubMatched(tag, esc, ContentMatch(tag))

\* Mutant: the content attribute is given the text as it is.
PutContentUnescaped(doc, attr, name, new_content) ==
    LET m == MetaMatch(doc, attr, name)
        tag == Slice(doc, m[1], m[2])
        cm == ContentMatch(tag)
    IN  IF m = None \/ cm = None THEN <<doc, FALSE>>
        ELSE <<Slice(doc, 0, m[1] + cm[2]) \o new_content
                   \o Slice(doc, m[1] + cm[3], Len(doc)), TRUE>>

\* new_tag: the content attribute is substituted, or inserted before '>'.
NewTag(tag, esc) ==
    IF HasContent(tag) THEN SubContent(tag, esc)
    ELSE Slice(tag, 0, Len(tag) - 1)
             \o <<" ">> \o content \o <<"=", "\"">> \o esc \o <<"\"", ">">>

\* The document with new_tag in place of the match m.
PutTag(doc, m, new_tag) ==
    IF new_tag = Raise THEN Raise
    ELSE <<Slice(doc, 0, m[1]) \o new_tag \o Slice(doc, m[2], Len(doc)), TRUE>>

\* The replacement, m being the match of pat in doc.
ReplaceTag(doc, m, esc) ==
    IF m = None THEN <<doc, FALSE>>
    ELSE PutTag(doc, m, NewTag(Slice(doc, m[1], m[2]), esc))

\* The body shared by _replace_meta_content_by_name (attr name) and
\* _replace_meta_content_by_property (attr property): <<replaced, ok>>, or
\* Raise.
ReplaceMetaContent(doc, attr, name, new_content) ==
    ReplaceTag(doc, MetaMatch(doc, attr, name), _escape_attr(new_content))

attr_name == <<"n","a","m","e">>

attr_property == <<"p","r","o","p","e","r","t","y">>

_replace_meta_content_by_name(doc, name, new_content) ==
    ReplaceMetaContent(doc, attr_name, name, new_content)

_replace_meta_content_by_property(doc, name, new_content) ==
    ReplaceMetaContent(doc, attr_property, name, new_content)

description == <<"d","e","s","c","r","i","p","t","i","o","n">>

\* The text of the content attribute matched by m2 in tag.
ContentText(tag, m2) ==
    IF m2 = None THEN None
    ELSE _normalize_space(Unescape(Slice(tag, m2[2], m2[3])))

\* The same for the tag matched by m in doc.
ContentOfTag(doc, m) ==
    IF m = None THEN None
    ELSE ContentText(Slice(doc, m[1], m[2]), ContentMatch(Slice(doc, m[1], m[2])))

_extract_meta_description(doc) ==
    ContentOfTag(doc, MetaMatch(doc, attr_name, description))

(***************************************************************************)
(* fix_file                                                                *)
(***************************************************************************)

og_title == <<"o","g",":","t","i","t","l","e">>

og_description == <<"o","g",":">> \o description

twitter_title == <<"t","w","i","t","t","e","r",":","t","i","t","l","e">>

twitter_description == <<"t","w","i","t","t","e","r",":">> \o description

\* Path.read_text on a file holding c: universal newlines turn "\r\n" and a
\* lone "\r" into "\n". (Path.write_text writes "\n" as it is, os.linesep
\* being "\n".)
ReadText(c) ==
    LET idx == [i \in 1..Len(c) |-> i]
        Keep(i) == ~(c[i] = "\n" /\ i > 1 /\ c[i - 1] = "\r")
        kept == SelectSeq(idx, Keep)
    IN  AsSeq([k \in 1..Len(kept) |->
            IF c[kept[k]] = "\r" THEN "\n" ELSE c[kept[k]]])

\* if value: a string that is neither None nor empty.
Truthy(value) == value # None /\ value # <<>>

\* doc, ok = r; if ok: changed = True; new_title = t2
TitleReplaced(st, t2, r) ==
    IF r[2] THEN [st EXCEPT !.doc = r[1], !.changed = TRUE, !.new_title = t2]
    ELSE [st EXCEPT !.doc = r[1]]

\* if t2 != old_title: ...
TitleChanged(st, t2) ==
    IF t2 = st.old_title THEN st
    ELSE TitleReplaced(st, t2, _find_and_replace_title(st.doc, t2))

\* The title block of fix_file on its locals st.
TitleStep(st, title_min, title_max) ==
    IF st.old_title = None THEN st
    ELSE TitleChanged(st, _smart_title(st.old_title, title_min, title_max))

\* doc, ok = r; if ok: changed = True; new_desc = d2
DescReplaced(st, d2, r) ==
    IF r = Raise THEN [st EXCEPT !.raised = TRUE]
    ELSE IF r[2] THEN [st EXCEPT !.doc = r[1], !.changed = TRUE, !.new_desc = d2]
    ELSE [st EXCEPT !.doc = r[1]]

\* if d2 != old_desc: ...
DescChanged(st, d2) ==
    IF d2 = st.old_desc THEN st
    ELSE DescReplaced(st, d2, _replace_meta_content_by_name(st.doc, description, d2))

\* The description block.
DescStep(st, desc_min, desc_max) ==
    IF st.raised \/ st.old_desc = None THEN st
    ELSE DescChanged(st, FixDescription(st.old_desc, desc_min, desc_max))

\* Mutant: a tag that already holds the value does not count as a change.
SyncStepIfDiffers(st, wanted, value, r) ==
    IF st.raised \/ ~wanted \/ ~Truthy(value) THEN st
    ELSE IF r = Raise THEN [st EXCEPT !.raised = TRUE]
    ELSE IF r[2] /\ r[1] # st.doc THEN [st EXCEPT !.doc = r[1], !.changed = TRUE]
    ELSE st

\* One of the four OG/Twitter blocks: doc2, ok = r; if ok: doc = doc2;
\* changed = True.
SyncStep(st, wanted, value, r) ==
    IF st.raised \/ ~wanted \/ ~Truthy(value) THEN st
    ELSE IF r = Raise THEN [st EXCEPT !.raised = TRUE]
    ELSE IF r[2] THEN [st EXCEPT !.doc = r[1], !.changed = TRUE]
    ELSE st

\* The locals of fix_file before the title block.
Locals(doc0, old_title, old_desc) ==
    [doc |-> doc0, changed |-> FALSE, raised |-> FALSE,
     old_title |-> old_title, new_title |-> old_title,
     old_desc |-> old_desc, new_desc |-> old_desc]

\* if update_og: the og:title block and the og:description block.
SyncOgTitle(st, wanted) ==
    SyncStep(st, wanted, st.new_title,
             _replace_meta_content_by_property(st.doc, og_title, st.new_title))

SyncOgDescription(st, wanted) ==
    SyncStep(st, wanted, st.new_desc,
             _replace_meta_content_by_property(st.doc, og_description, st.new_desc))

SyncOg(st, update_og) == SyncOgDescription(SyncOgTitle(st, update_og), update_og)

\* if update_twitter: the twitter:title and the twitter:description block.
SyncTwitterTitle(st, wanted) ==
    SyncStep(st, wanted, st.new_title,
             _replace_meta_content_by_name(st.doc, twitter_title, st.new_title))

SyncTwitterDescription(st, wanted) ==
    SyncStep(st, wanted, st.new_desc,
             _replace_meta_content_by_name(st.doc, twitter_description, st.new_desc))

SyncTwitter(st, update_twitter) ==
    SyncTwitterDescription(SyncTwitterTitle(st, update_twitter), update_twitter)

\* fix_file on the text read from the file, up to the write: its locals at
\* "if changed:", raised telling that re.sub raised on the way.
fix_file(doc0, title_min, title_max, desc_min, desc_max, update_og, update_twitter) ==
    SyncTwitter(
        SyncOg(
            DescStep(
                TitleStep(
                    Locals(doc0, _extract_title(doc0), _extract_meta_description(doc0)),
                    title_min, title_max),
                desc_min, desc_max),
            update_og),
        update_twitter)

(***************************************************************************)
(* Inputs                                                                  *)
(***************************************************************************)

\* Most pieces an input text is made of.
MaxPieces == 3

\* Length of the token without any space.
LongTokenLen == 150

LongToken == AsSeq([i \in 1..LongTokenLen |-> "x"])

\* The pieces input texts are concatenated from: words with a sentence end
\* between them, a run of whitespace, the brand, a segment separator,
\* keywords followed by a sentence end, and a token without spaces that is
\* longer than the default title window.
Pieces ==
    << <<"R","o","o","f","!"," ","R","e","p","a","i","r">>,
       <<" ", "\t">>,
       BRAND,
       BAR,
       <<"D","e","t","r","o","i","t"," ","R","e","m","o","d","e","l","."," ">>,
       LongToken >>

Concat(ps) == Join(ps, <<>>)

InputsOf(k) ==
    {Concat(AsSeq([i \in 1..k |-> Pieces[f[i]]])) : f \in [1..k -> 1..Len(Pieces)]}

Inputs == UNION {InputsOf(k) : k \in 0..MaxPieces}

\* The <<min_len, max_len>> windows: the degenerate one, a narrow one, the
\* default title window, one whose sentence window starts after the first
\* character, the default description window and one too wide to fill.
Windows ==
    { <<0, 0>>, <<10, 20>>, <<TITLE_MIN, TITLE_MAX>>, <<65, 70>>,
      <<DESC_MIN, DESC_MAX>>, <<100, 200>> }

(***************************************************************************)
(* State                                                                   *)
(***************************************************************************)

VARIABLES
    text,       \* the argument of the last call (initially the input)
    min_len,    \* lower end of the window
    max_len,    \* upper end of the window
    op,         \* the function last called: "input" before any call
    result,     \* what the last call returned
    round,      \* number of calls made on the way from the input
    doc,        \* the document a title is put into and read from
    disk,       \* the files on disk: path |-> content
    disk0,      \* the files on disk before the program ran
    args,       \* the command-line arguments
    report,     \* the pages of the audit report
    pc,         \* where the program stands in main
    todo,       \* the files main has still to go through
    local,      \* main's local variables
    results,    \* the FixResult records collected
    calls,      \* the files fix_file was called on, in order
    writes      \* the write_text calls made: file, content before and after

textvars == <<text, min_len, max_len, op, result, round>>

filevars == <<doc, disk, disk0, args, report, pc, todo, local, results, calls, writes>>

vars == <<textvars, filevars>>

\* No document and no file is involved.
NoFiles ==
    /\ doc = <<>>
    /\ disk = <<>>
    /\ disk0 = <<>>
    /\ args = <<>>
    /\ report = <<>>
    /\ pc = "none"
    /\ todo = <<>>
    /\ local = <<>>
    /\ results = <<>>
    /\ calls = <<>>
    /\ writes = <<>>

\* No text is being normalized on its own.
NoText ==
    /\ text = <<>>
    /\ min_len = 0
    /\ max_len = 0
    /\ op = "none"
    /\ result = <<>>
    /\ round = 0

Init ==
    /\ text \in Inputs
    /\ \E w \in Windows : min_len = w[1] /\ max_len = w[2]
    /\ op = "input"
    /\ result = <<>>
    /\ round = 0
    /\ NoFiles

\* _trim_to_word_boundary(text, max_len)
TrimToWordBoundary ==
    /\ op = "input"
    /\ result' = _trim_to_word_boundary(text, max_len)
    /\ op' = "trim"
    /\ round' = 1
    /\ UNCHANGED <<text, min_len, max_len>>
    /\ UNCHANGED filevars

\* _extend_description(text, min_len, max_len)
ExtendDescription ==
    /\ op = "input"
    /\ result' = _extend_description(text, min_len, max_len)
    /\ op' = "extend"
    /\ round' = 1
    /\ UNCHANGED <<text, min_len, max_len>>
    /\ UNCHANGED filevars

\* _smart_title(title, min_len, max_len)
SmartTitle ==
    /\ op = "input"
    /\ result' = _smart_title(text, min_len, max_len)
    /\ op' = "title"
    /\ round' = 1
    /\ UNCHANGED <<text, min_len, max_len>>
    /\ UNCHANGED filevars

\* The description steps of fix_file on the description extracted from the
\* document (extraction normalizes its whitespace).
FixFileDescription ==
    /\ op = "input"
    /\ text' = _normalize_space(text)
    /\ result' = FixDescription(_normalize_space(text), min_len, max_len)
    /\ op' = "desc"
    /\ round' = 1
    /\ UNCHANGED <<min_len, max_len>>
    /\ UNCHANGED filevars

\* _smart_title called on the title it returned.
SmartTitleAgain ==
    /\ op = "title"
    /\ round = 1
    /\ text' = result
    /\ result' = _smart_title(result, min_len, max_len)
    /\ round' = 2
    /\ UNCHANGED <<op, min_len, max_len>>
    /\ UNCHANGED filevars

\* The description steps of fix_file run on the description they produced.
FixFileDescriptionAgain ==
    /\ op = "desc"
    /\ round = 1
    /\ text' = result
    /\ result' = FixDescription(result, min_len, max_len)
    /\ round' = 2
    /\ UNCHANGED <<op, min_len, max_len>>
    /\ UNCHANGED filevars

Next ==
    \/ TrimToWordBoundary
    \/ ExtendDescription
    \/ SmartTitle
    \/ FixFileDescription
    \/ SmartTitleAgain
    \/ FixFileDescriptionAgain

Spec == Init /\ [][Next]_vars

(***************************************************************************)
(* Titles made of segments                                                 *)
(***************************************************************************)

\* Most segments a title is made of.
MaxSegments == 3

\* Segments of page titles: services with two and four keywords, a place, the
\* brand, a word without keyword, and a brand segment longer than the brand.
Segments ==
    << <<"K","i","t","c","h","e","n"," ","R","e","m","o","d","e","l"," ","C","o","n","t","r","a","c","t","o","r">>,
       Detroit,
       BRAND,
       <<"R","o","o","f","i","n","g">>,
       <<"H","o","m","e"," ","B","u","i","l","d","e","r"," ","S","e","r","v","i","c","e","s"," ","i","n"," ","M","e","t","r","o"," ","D","e","t","r","o","i","t">>,
       <<"M","i","d","w","e","s","t"," ","H","o","u","s","e"," ","F","l","i","p"," ","E","x","p","e","r","t","s"," ","o","f"," ","M","i","c","h","i","g","a","n">> >>

\* What the segments of one title are joined by.
SegmentSeparators == { BAR, <<" ","-"," ">> }

TitlesOf(k) ==
    {Join(AsSeq([i \in 1..k |-> Segments[f[i]]]), sep) :
        f \in [1..k -> 1..Len(Segments)], sep \in SegmentSeparators}

Titles == UNION {TitlesOf(k) : k \in 1..MaxSegments}

\* The default title window, one that the brand alone satisfies, and one that
\* the longer brand segment exceeds.
TitleWindows == { <<TITLE_MIN, TITLE_MAX>>, <<10, 30>>, <<10, 20>> }

TitleInit ==
    /\ text \in Titles
    /\ \E w \in TitleWindows : min_len = w[1] /\ max_len = w[2]
    /\ op = "input"
    /\ result = <<>>
    /\ round = 0
    /\ NoFiles

TitleNext ==
    \/ SmartTitle
    \/ SmartTitleAgain

SpecTitle == TitleInit /\ [][TitleNext]_vars

(***************************************************************************)
(* A title put into a document and read back                               *)
(***************************************************************************)

\* Most pieces a new title is made of.
MaxTitlePieces == 3

title_open == <<"<","t","i","t","l","e",">">>

title_close == <<"<","/","t","i","t","l","e",">">>

Roof == <<"R","o","o","f">>

\* The pieces of new titles: a word, a space, the characters html.escape
\* replaces, text that reads as a character reference, with and without
\* its semicolon, and text that reads as the closing tag.
TitlePieces ==
    << Roof, <<" ">>, <<"&">>, <<"<">>, <<">">>, <<"&","l","t",";">>,
       <<"&","a","m","p">>, title_close >>

\* The whitespace-normalized plain strings of at most MaxTitlePieces pieces.
NewTitles ==
    {t \in UNION {{Concat(AsSeq([i \in 1..k |-> TitlePieces[f[i]]])) :
                      f \in [1..k -> 1..Len(TitlePieces)]} : k \in 0..MaxTitlePieces} :
        _normalize_space(t) = t}

\* Documents: a bare title element; a head with an upper-case title tag that
\* has an attribute and a character reference in its text; two title
\* elements; an opening tag that runs into the next one, with a '>' in the
\* text; an empty title element; and a head without title.
TitleDocuments ==
    { title_open \o Roof \o title_close,
      <<"<","h","e","a","d",">","<","T","I","T","L","E"," ","i","d","=","\"","t","\"",">">>
          \o Roof \o <<" ","&","a","m","p",";"," ","B","a","t","h","<","/","T","I","T","L","E",">">>
          \o <<"<","m","e","t","a"," ","n","a","m","e","=","\"","d","e","s","c","r","i","p","t","i","o","n","\""," ","c","o","n","t","e","n","t","=","\"","x","\"",">","<","/","h","e","a","d",">">>,
      title_open \o <<"A">> \o title_close \o title_open \o <<"B">> \o title_close,
      <<"<","t","i","t","l","e"," ">> \o title_open \o <<"A"," ",">"," ","B">> \o title_close,
      title_open \o title_close \o <<"<","/","h","e","a","d",">">>,
      <<"<","h","e","a","d",">","<","m","e","t","a"," ","c","h","a","r","s","e","t","=","\"","u","t","f","-","8","\"",">","<","/","h","e","a","d",">">> }

RoundTripInit ==
    /\ doc \in TitleDocuments
    /\ text \in NewTitles
    /\ min_len = 0
    /\ max_len = 0
    /\ op = "input"
    /\ result = <<>>
    /\ round = 0
    /\ disk = <<>>
    /\ disk0 = <<>>
    /\ args = <<>>
    /\ report = <<>>
    /\ pc = "none"
    /\ todo = <<>>
    /\ local = <<>>
    /\ results = <<>>
    /\ calls = <<>>
    /\ writes = <<>>

\* doc, ok = _find_and_replace_title(doc, text)
FindAndReplaceTitle ==
    /\ op = "input"
    /\ doc' = _find_and_replace_title(doc, text)[1]
    /\ result' = <<_find_and_replace_title(doc, text)[2]>>
    /\ op' = "replace"
    /\ round' = 1
    /\ UNCHANGED <<text, min_len, max_len>>
    /\ UNCHANGED <<disk, disk0, args, report, pc, todo, local, results, calls, writes>>

\* _extract_title(doc) on the document the replacement returned
ExtractTitle ==
    /\ op = "replace"
    /\ result' = _extract_title(doc)
    /\ op' = "extract"
    /\ round' = 2
    /\ UNCHANGED <<text, min_len, max_len>>
    /\ UNCHANGED filevars

RoundTripNext ==
    \/ FindAndReplaceTitle
    \/ ExtractTitle

SpecRoundTrip == RoundTripInit /\ [][RoundTripNext]_vars

(***************************************************************************)
(* audit_html_file of seo_audit_site                                       *)
(***************************************************************************)

\* The lowest 1-based index >= i of a character of s outside class, else 0.
FirstNotIn(s, class, i) ==
    LET hits == {k \in i..Len(s) : s[k] \notin class}
    IN  IF hits = {} THEN 0 ELSE CHOOSE k \in hits : \A j \in hits : k <= j

\* The attribute that starts at the 1-based index a of the start tag:
\* <<name, value, next>>, the name lower-cased, the value None without '=',
\* a quoted value ending at the quote that opened it, character references
\* decoded; next is where the parser goes on. (The tags here hold no '>'
\* inside a value and no quote left open.)
AttrAt(tag, a) ==
    LET e == FirstIn(tag, Whitespace \cup {"/", ">", "="}, a + 1)
        b == FirstNotIn(tag, Whitespace, e)
        v == FirstNotIn(tag, Whitespace, b + 1)
        z == IF tag[v] \in Quotes THEN FirstIn(tag, {tag[v]}, v + 1)
             ELSE FirstIn(tag, Whitespace \cup {">"}, v)
        name == Lower(SubSeq(tag, a, e - 1))
    IN  IF tag[b] # "=" THEN <<name, None, b>>
        ELSE IF tag[v] \in Quotes
        THEN IF z = 0 THEN <<name, Unescape(SubSeq(tag, v + 1, Len(tag) - 1)), Len(tag)>>
             ELSE <<name, Unescape(SubSeq(tag, v + 1, z - 1)), z + 1>>
        ELSE <<name, Unescape(SubSeq(tag, v, z - 1)), z>>

RECURSIVE AttrsFrom(_, _)
\* The attributes the HTML parser reads from the start tag from the 1-based
\* index i on, as <<name, value>> pairs in source order.
AttrsFrom(tag, i) ==
    LET a == FirstNotIn(tag, Whitespace \cup {"/"}, i)
    IN  IF a = 0 \/ tag[a] = ">" THEN <<>>
        ELSE <<SubSeq(AttrAt(tag, a), 1, 2)>> \o AttrsFrom(tag, AttrAt(tag, a)[3])

\* tag.get(key) on the attributes attrs: the value of the first attribute of
\* that name, "" for one without '=', None without such an attribute.
AttrGet(attrs, key) ==
    LET hits == {k \in 1..Len(attrs) : attrs[k][1] = key}
        first == CHOOSE k \in hits : \A j \in hits : k <= j
    IN  IF hits = {} THEN None
        ELSE IF attrs[first][2] = None THEN <<>>
        ELSE attrs[first][2]

RECURSIVE FindMetaFrom(_, _, _, _)
\* soup.find("meta", attrs={"name": name}): the attributes of the first meta
\* element from the 0-based index from on whose name attribute is name, or
\* None.
FindMetaFrom(d, low, name, from) ==
    LET i == Find(low, <<"<","m","e","t","a">>, from)
        j == IF i = -1 THEN -1 ELSE Find(d, <<">">>, i + 5)
    IN  IF j = -1 THEN None
        ELSE IF /\ low[i + 6] \notin WordChars
                /\ AttrGet(AttrsFrom(Slice(d, i, j + 1), 6), attr_name) = name
        THEN AttrsFrom(Slice(d, i, j + 1), 6)
        ELSE FindMetaFrom(d, low, name, i + 1)

\* content = _normalize_space(str(content)); return content or None
ContentOrNone(value) ==
    IF value = None \/ _normalize_space(value) = <<>> THEN None
    ELSE _normalize_space(value)

\* _get_meta_content(soup, name) on the soup of the document d.
ContentOfMeta(attrs) ==
    IF attrs = None THEN None ELSE ContentOrNone(AttrGet(attrs, content))

_get_meta_content(d, name) == ContentOfMeta(FindMetaFrom(d, Lower(d), name, 0))

\* _get_title(soup) on the soup of the document d: the text of the first
\* title element, None for none and for an empty one.
TitleOf(d, m) ==
    IF m = None \/ m[2] = m[3] THEN None
    ELSE _normalize_space(Unescape(Slice(d, m[2], m[3])))

_get_title(d) == TitleOf(d, TitleMatch(d))

\* bool(value): neither None nor empty.
LengthOf(value) == IF Truthy(value) THEN Len(value) ELSE 0

\* value_ok = bool(value) and lo <= value_len <= hi
InRange(value, lo, hi) ==
    Truthy(value) /\ lo <= LengthOf(value) /\ LengthOf(value) <= hi

title_missing == "Missing <title>."

title_length_warning == "Title length outside recommended range."

description_missing == "Missing meta description."

description_length_warning == "Meta description length outside recommended range."

\* The title and description part of the PageAudit of a page with the title
\* and description given.
PageAudit(title, desc, title_min, title_max, description_min, description_max) ==
    [title |-> title,
     title_length |-> LengthOf(title),
     title_ok |-> InRange(title, title_min, title_max),
     meta_description |-> desc,
     meta_description_length |-> LengthOf(desc),
     meta_description_ok |-> InRange(desc, description_min, description_max),
     errors |-> (IF ~Truthy(title) THEN <<title_missing>> ELSE <<>>)
                \o (IF ~Truthy(desc) THEN <<description_missing>> ELSE <<>>),
     warnings |-> (IF Truthy(title) /\ ~InRange(title, title_min, title_max)
                   THEN <<title_length_warning>> ELSE <<>>)
                  \o (IF Truthy(desc) /\ ~InRange(desc, description_min, description_max)
                      THEN <<description_length_warning>> ELSE <<>>)]

\* audit_html_file on a file that reads as the text html.
audit_html_file(html, title_min, title_max, description_min, description_max) ==
    PageAudit(_get_title(html), _get_meta_content(html, description),
              title_min, title_max, description_min, description_max)

(***************************************************************************)
(* fix_file on one page                                                    *)
(***************************************************************************)

\* A title inside the default window.
title_in_window ==
    <<"R","o","o","f"," ","R","e","p","a","i","r"," ","i","n"," ","D","e",
      "t","r","o","i","t"," ","|"," ","M","i","d","w","e","s","t"," ","F",
      "l","i","p"," ","L","L","C">>

\* A description inside the default window.
description_in_window ==
    <<"M","i","d","w","e","s","t"," ","F","l","i","p"," ","L","L","C"," ",
      "r","e","p","a","i","r","s"," ","a","n","d"," ","r","e","p","l","a",
      "c","e","s"," ","r","o","o","f","s"," ","i","n"," ","D","e","t","r",
      "o","i","t"," ","a","n","d"," ","M","e","t","r","o"," ","D","e","t",
      "r","o","i","t","."," ","C","a","l","l"," ","t","o","d","a","y"," ",
      "f","o","r"," ","a"," ","f","r","e","e"," ","e","s","t","i","m","a",
      "t","e",".">>

\* A description below the default window that holds a backslash.
description_backslash ==
    <<"K","i","t","c","h","e","n","\\","b","a","t","h"," ","r","e","m","o",
      "d","e","l","i","n","g"," ","i","n"," ","R","o","y","a","l"," ","O",
      "a","k",".">>

head_open ==
    <<"<","h","e","a","d",">">>

head_close ==
    <<"<","/","h","e","a","d",">">>

meta_open ==
    <<"<","m","e","t","a"," ">>

TitleElement(t) == title_open \o t \o title_close

\* <meta attr="name" content="value">
MetaTag(attr, name, value) ==
    meta_open \o attr \o <<"=", "\"">> \o name \o <<"\"", " ">> \o content
        \o <<"=", "\"">> \o value \o <<"\"", ">">>

\* No title element; a title inside the window; a short one; a short one
\* with a character reference.
TitleElements ==
    { <<>>,
      TitleElement(title_in_window),
      TitleElement(<<"R","o","o","f","i","n","g">>),
      TitleElement(<<"K","i","t","c","h","e","n","s"," ","&","a","m","p",";"," ","B","a","t","h","s">>) }

\* No description; one inside the window; a short one; short ones that begin
\* with a digit, or with two octal digits; a short one with an apostrophe; a
\* short one with a backslash before a letter.
DescriptionTags ==
    { <<>>,
      MetaTag(attr_name, description, description_in_window),
      MetaTag(attr_name, description, <<"R","o","o","f"," ","r","e","p","a","i","r",".">>),
      MetaTag(attr_name, description, <<"5","-","s","t","a","r"," ","r","o","o","f","i","n","g",".">>),
      MetaTag(attr_name, description, <<"2","4","/","7"," ","r","o","o","f"," ","r","e","p","a","i","r",".">>),
      MetaTag(attr_name, description, <<"D","e","t","r","o","i","t","'","s"," ","b","e","s","t"," ","r","o","o","f","e","r","s",".">>),
      MetaTag(attr_name, description, description_backslash) }

\* No og:title; one that holds the title inside the window; a stale one.
OgTags ==
    { <<>>,
      MetaTag(attr_property, og_title, title_in_window),
      MetaTag(attr_property, og_title, <<"O","l","d">>) }

\* No twitter:description; one that holds the description inside the window.
TwitterTags ==
    { <<>>,
      MetaTag(attr_name, twitter_description, description_in_window) }

Documents ==
    {head_open \o t \o d \o o \o w \o head_close :
        t \in TitleElements, d \in DescriptionTags, o \in OgTags, w \in TwitterTags}

\* The FixResult of the locals st of fix_file.
FixResult(f, st) ==
    [file |-> f, changed |-> st.changed,
     old_title |-> st.old_title, new_title |-> st.new_title,
     old_desc |-> st.old_desc, new_desc |-> st.new_desc]

\* The locals fix_file reaches "if changed:" with when called on the file f
\* with the default windows.
LocalsOfFix(f) ==
    fix_file(ReadText(disk[f]), TITLE_MIN, TITLE_MAX, DESC_MIN, DESC_MAX,
             args.update_og, args.update_twitter)

\* The disk after f.write_text(c).
Written(f, c) == [p \in DOMAIN disk \cup {f} |-> IF p = f THEN c ELSE disk[p]]

\* The record of that write.
WriteRecord(f, c) ==
    [file |-> f, old |-> IF f \in DOMAIN disk THEN disk[f] ELSE None, new |-> c]

\* f.write_text(c), recorded.
WriteText(f, c) ==
    /\ disk' = Written(f, c)
    /\ writes' = Append(writes, WriteRecord(f, c))

FixInit ==
    /\ \E d \in Documents : disk = [f \in {"page.html"} |-> d]
    /\ disk0 = disk
    /\ args \in [dry_run : {FALSE}, update_og : BOOLEAN, update_twitter : BOOLEAN]
    /\ pc = "call"
    /\ report = <<>>
    /\ todo = <<>>
    /\ local = <<>>
    /\ results = <<>>
    /\ calls = <<>>
    /\ writes = <<>>
    /\ doc = <<>>
    /\ NoText

\* fix_file(f, ...) is called and reaches "if changed:" with the locals st,
\* unless it raised: the file is written if changed.
FixCalled(f, st) ==
    /\ calls' = Append(calls, f)
    /\ IF ~st.raised /\ st.changed
       THEN WriteText(f, st.doc)
       ELSE UNCHANGED <<disk, writes>>

FixFileOn(f, st) ==
    /\ FixCalled(f, st)
    /\ pc' = IF st.raised THEN "raised" ELSE "returned"
    /\ results' = IF st.raised THEN results ELSE Append(results, FixResult(f, st))

\* fix_file(f, ...): the file is read, fixed and, if changed, written; the
\* call returns its FixResult or raises what re.sub raised.
FixFile ==
    /\ pc = "call"
    /\ \E f \in DOMAIN disk : FixFileOn(f, LocalsOfFix(f))
    /\ UNCHANGED <<doc, disk0, args, report, todo, local>>
    /\ UNCHANGED textvars

FixFileAgainOn(f, st) ==
    /\ FixCalled(f, st)
    /\ pc' = IF st.raised THEN "raised again" ELSE "returned again"
    /\ results' = IF st.raised THEN results ELSE Append(results, FixResult(f, st))

\* A second fix_file(f, ...) on the file the first call returned from, with
\* the same windows and flags.
FixFileAgain ==
    /\ pc = "returned"
    /\ \E f \in DOMAIN disk : FixFileAgainOn(f, LocalsOfFix(f))
    /\ UNCHANGED <<doc, disk0, args, report, todo, local>>
    /\ UNCHANGED textvars

\* audit_html_file, with the same thresholds, on the file fix_file returned
\* from: its PageAudit is appended to the report.
AuditHtmlFile ==
    /\ pc \in {"returned", "returned again"}
    /\ \E f \in DOMAIN disk :
          report' = Append(report,
              audit_html_file(ReadText(disk[f]), TITLE_MIN, TITLE_MAX, DESC_MIN, DESC_MAX))
    /\ pc' = "audited"
    /\ UNCHANGED <<doc, disk, disk0, args, todo, local, results, calls, writes>>
    /\ UNCHANGED textvars

FixNext == FixFile \/ FixFileAgain \/ AuditHtmlFile

SpecFix == FixInit /\ [][FixNext]_vars

(***************************************************************************)
(* _replace_meta_content_by_name on one document                           *)
(***************************************************************************)

\* Documents: one without meta description (its metas have other names);
\* one with a title and a description; two descriptions; a description tag
\* without content attribute; single quotes and other attributes around the
\* content; an apostrophe in a double-quoted value; upper-case names.
MetaDocuments ==
    { <<"<","h","e","a","d",">","<","m","e","t","a"," ","n","a","m","e","=",
        "\"","v","i","e","w","p","o","r","t","\""," ","c","o","n","t","e",
        "n","t","=","\"","w","i","d","t","h","=","d","e","v","i","c","e",
        "-","w","i","d","t","h","\"",">","<","m","e","t","a"," ","p","r",
        "o","p","e","r","t","y","=","\"","o","g",":","d","e","s","c","r",
        "i","p","t","i","o","n","\""," ","c","o","n","t","e","n","t","=",
        "\"","O","l","d"," ","t","e","x","t",".","\"",">","<","/","h","e",
        "a","d",">">>,
      <<"<","h","e","a","d",">","<","t","i","t","l","e",">","R","o","o","f",
        "i","n","g","<","/","t","i","t","l","e",">","<","m","e","t","a"," ",
        "n","a","m","e","=","\"","d","e","s","c","r","i","p","t","i","o",
        "n","\""," ","c","o","n","t","e","n","t","=","\"","O","l","d"," ",
        "t","e","x","t",".","\"",">","<","/","h","e","a","d",">">>,
      <<"<","m","e","t","a"," ","n","a","m","e","=","\"","d","e","s","c",
        "r","i","p","t","i","o","n","\""," ","c","o","n","t","e","n","t",
        "=","\"","O","l","d"," ","t","e","x","t",".","\"",">","<","m","e",
        "t","a"," ","n","a","m","e","=","\"","d","e","s","c","r","i","p",
        "t","i","o","n","\""," ","c","o","n","t","e","n","t","=","\"","S",
        "e","c","o","n","d",".","\"",">">>,
      <<"<","h","e","a","d",">","<","m","e","t","a"," ","c","h","a","r","s",
        "e","t","=","\"","u","t","f","-","8","\"",">","<","m","e","t","a",
        " ","n","a","m","e","=","\"","d","e","s","c","r","i","p","t","i",
        "o","n","\"",">","<","/","h","e","a","d",">">>,
      <<"<","m","e","t","a"," ","i","d","=","\"","d","\""," ","c","o","n",
        "t","e","n","t","=","'","O","l","d"," ","t","e","x","t",".","'"," ",
        "n","a","m","e","=","'","d","e","s","c","r","i","p","t","i","o","n",
        "'"," ","l","a","n","g","=","\"","e","n","\"",">">>,
      <<"<","h","e","a","d",">","<","m","e","t","a"," ","n","a","m","e","=",
        "\"","d","e","s","c","r","i","p","t","i","o","n","\""," ","c","o",
        "n","t","e","n","t","=","\"","D","e","t","r","o","i","t","'","s",
        " ","b","e","s","t"," ","r","o","o","f","e","r","s",".","\"",">",
        "<","/","h","e","a","d",">">>,
      <<"<","M","E","T","A"," ","N","A","M","E","=","\"","d","e","s","c",
        "r","i","p","t","i","o","n","\""," ","C","O","N","T","E","N","T",
        "=","\"","O","l","d"," ","t","e","x","t",".","\"",">">> }

\* New contents: plain text; the five characters html.escape replaces; an
\* apostrophe; a leading digit; two leading octal digits; a backslash before
\* a letter that is an escape, the empty string, a backslash before a letter
\* that is none, and a backslash before a digit.
NewContents ==
    { <<"R","o","o","f"," ","r","e","p","a","i","r"," ","i","n"," ","D","e",
        "t","r","o","i","t",".">>,
      <<"K","i","t","c","h","e","n","s"," ","&"," ","\"","B","a","t","h",
        "s","\""," ","<","n","o","w",">">>,
      <<"D","e","t","r","o","i","t","'","s"," ","b","e","s","t">>,
      <<"5","-","s","t","a","r"," ","r","o","o","f","i","n","g">>,
      <<"2","4","/","7"," ","r","o","o","f"," ","r","e","p","a","i","r">>,
      <<"K","i","t","c","h","e","n","\\","b","a","t","h">>,
      <<>>,
      <<"C",":","\\","d","i","r">>,
      <<"R","o","o","f","i","n","g","\\","1","s","i","d","i","n","g">> }

ReplaceInit ==
    /\ doc \in MetaDocuments
    /\ text \in NewContents
    /\ min_len = 0
    /\ max_len = 0
    /\ op = "input"
    /\ result = <<>>
    /\ round = 0
    /\ disk = <<>>
    /\ disk0 = <<>>
    /\ args = <<>>
    /\ report = <<>>
    /\ pc = "none"
    /\ todo = <<>>
    /\ local = <<>>
    /\ results = <<>>
    /\ calls = <<>>
    /\ writes = <<>>

\* result = _replace_meta_content_by_name(doc, "description", text): the
\* pair <<html, ok>>, or Raise.
ReplaceMetaDescription ==
    /\ op = "input"
    /\ result' = _replace_meta_content_by_name(doc, description, text)
    /\ op' = "replace meta"
    /\ round' = 1
    /\ UNCHANGED <<text, min_len, max_len>>
    /\ UNCHANGED filevars

ReplaceNext == ReplaceMetaDescription

SpecReplace == ReplaceInit /\ [][ReplaceNext]_vars

(***************************************************************************)
(* main of seo_fix_site                                                    *)
(***************************************************************************)

\* The most entries a report has.
MaxPages == 2

\* What the disk holds at the path of a directory.
Directory == <<"directory">>

\* A page that needs no fix, one whose title is too short, one whose
\* description makes re.sub raise, and a page that needs no fix and whose
\* lines end in CR LF.
page_clean == head_open \o TitleElement(title_in_window) \o head_close

page_short == head_open \o TitleElement(<<"R","o","o","f","i","n","g">>) \o head_close

page_raising ==
    head_open
        \o MetaTag(attr_name, description,
                   <<"5","-","s","t","a","r"," ","r","o","o","f","i","n","g",".">>)
        \o head_close

page_crlf ==
    head_open \o <<"\r", "\n">> \o TitleElement(title_in_window) \o head_close

\* The site: a.html may be missing, b.html may be a directory.
Sites ==
    {[f \in {"a.html", "b.html"} |-> IF f = "a.html" THEN a ELSE b] :
        a \in {page_clean, page_short, page_raising},
        b \in {page_short, page_crlf, Directory}}
    \cup {[f \in {"b.html"} |-> b] : b \in {page_short, page_crlf}}

\* The entries of the report's "pages": the file (possibly empty) and the
\* lists of warnings and errors.
PageEntries ==
    [file : {"", "a.html", "b.html"},
     warnings : {<<>>, <<"title too short">>},
     errors : {<<>>}]
    \cup [file : {"", "a.html", "b.html"},
          warnings : {<<>>},
          errors : {<<"missing description">>}]

Reports == UNION {[1..n -> PageEntries] : n \in 0..MaxPages}

\* p.get("warnings") or p.get("errors")
Flagged(p) == p.warnings # <<>> \/ p.errors # <<>>

\* The files of the flagged entries that name one, in report order.
RECURSIVE target_files(_)
target_files(pages) ==
    IF pages = <<>> THEN <<>>
    ELSE LET p == Head(pages)
         IN  (IF Flagged(p) /\ p.file # "" THEN <<p.file>> ELSE <<>>)
                 \o target_files(Tail(pages))

\* Dedupe: the first occurrence of each file is kept.
files(fs) ==
    LET first == {i \in 1..Len(fs) : \A j \in 1..(i - 1) : fs[j] # fs[i]}
        Rank(i) == Cardinality({j \in first : j <= i})
    IN  [k \in 1..Cardinality(first) |-> fs[CHOOSE i \in first : Rank(i) = k]]

\* f.exists() and f.is_file()
IsFile(f) == f \in DOMAIN disk /\ disk[f] # Directory

MainInit ==
    /\ disk \in Sites
    /\ disk0 = disk
    /\ report \in Reports
    /\ args \in [dry_run : BOOLEAN, update_og : {FALSE}, update_twitter : {FALSE}]
    /\ pc = "start"
    /\ todo = <<>>
    /\ local = <<>>
    /\ results = <<>>
    /\ calls = <<>>
    /\ writes = <<>>
    /\ doc = <<>>
    /\ NoText

\* The report is read and the list of files to fix is made.
MainStart ==
    /\ pc = "start"
    /\ todo' = files(target_files(report))
    /\ pc' = "loop"
    /\ UNCHANGED <<doc, disk, disk0, args, report, local, results, calls, writes>>
    /\ UNCHANGED textvars

\* A file that does not exist, or is not a regular file, is passed over.
MainSkip ==
    /\ pc = "loop"
    /\ todo # <<>>
    /\ ~IsFile(Head(todo))
    /\ todo' = Tail(todo)
    /\ UNCHANGED <<doc, disk, disk0, args, report, pc, local, results, calls, writes>>
    /\ UNCHANGED textvars

\* results.append(fix_file(f, ...)), st being the locals fix_file ends with.
MainFixOn(f, st) ==
    /\ FixCalled(f, st)
    /\ pc' = IF st.raised THEN "crashed" ELSE "loop"
    /\ results' = IF st.raised THEN results ELSE Append(results, FixResult(f, st))
    /\ todo' = IF st.raised THEN todo ELSE Tail(todo)

\* Without --dry-run: fix_file on the next file; what it raises ends main.
MainFix ==
    /\ pc = "loop"
    /\ todo # <<>>
    /\ IsFile(Head(todo))
    /\ ~args.dry_run
    /\ MainFixOn(Head(todo), LocalsOfFix(Head(todo)))
    /\ UNCHANGED <<doc, disk0, args, report, local>>
    /\ UNCHANGED textvars

\* With --dry-run: before = f.read_text(...)
DryRunRead ==
    /\ pc = "loop"
    /\ todo # <<>>
    /\ IsFile(Head(todo))
    /\ args.dry_run
    /\ local' = [before |-> ReadText(disk[Head(todo)])]
    /\ pc' = "fix"
    /\ UNCHANGED <<doc, disk, disk0, args, report, todo, results, calls, writes>>
    /\ UNCHANGED textvars

\* res = fix_file(f, ...), st being the locals fix_file ends with.
DryRunFixOn(f, st) ==
    /\ FixCalled(f, st)
    /\ pc' = IF st.raised THEN "crashed" ELSE "restore"
    /\ local' = IF st.raised THEN local
                ELSE [before |-> local.before, res |-> FixResult(f, st)]

\* With --dry-run: res = fix_file(f, ...), which writes the file it changed.
DryRunFix ==
    /\ pc = "fix"
    /\ DryRunFixOn(Head(todo), LocalsOfFix(Head(todo)))
    /\ UNCHANGED <<doc, disk0, args, report, todo, results>>
    /\ UNCHANGED textvars

\* With --dry-run: f.write_text(before, ...); results.append(res)
DryRunRestore ==
    /\ pc = "restore"
    /\ WriteText(Head(todo), local.before)
    /\ results' = Append(results, local.res)
    /\ todo' = Tail(todo)
    /\ local' = <<>>
    /\ pc' = "loop"
    /\ UNCHANGED <<doc, disk0, args, report, calls>>
    /\ UNCHANGED textvars

\* The loop is over: main prints its summary and returns 0.
MainDone ==
    /\ pc = "loop"
    /\ todo = <<>>
    /\ pc' = "done"
    /\ UNCHANGED <<doc, disk, disk0, args, report, todo, local, results, calls, writes>>
    /\ UNCHANGED textvars

MainNext ==
    \/ MainStart
    \/ MainSkip
    \/ MainFix
    \/ DryRunRead
    \/ DryRunFix
    \/ DryRunRestore
    \/ MainDone

SpecMain == MainInit /\ [][MainNext]_vars

(***************************************************************************)
(* switch_image_paths_to_autoedited: _rewrite_content                      *)
(***************************************************************************)

images_dir == <<"i","m","a","g","e","s","/">>

images_autoedited_dir ==
    <<"i","m","a","g","e","s","_","a","u","t","o","e","d","i","t","e","d","/">>

logo_dot == <<"l","o","g","o",".">>

\* \.(?:jpe?g|png|webp)
RasterExts ==
    { <<".","j","p","g">>, <<".","j","p","e","g">>,
      <<".","p","n","g">>, <<".","w","e","b","p">> }

\* The characters that may come before a relative reference.
RelPrefixes == Whitespace \cup {"\"", "'", "(", "="}

\* The characters a file name stops at, in rel_pat and in abs_pat.
RelStops == Whitespace \cup {"\"", "'", ")", ">"}

AbsStops == Whitespace \cup {"\"", "'"}

\* The 0-based index of the first character of stops at or after i, else the
\* length of low.
RunEnd(low, i, stops) ==
    LET k == FirstIn(low, stops, i + 1)
    IN  IF k = 0 THEN Len(low) ELSE k - 1

\* (?P<file>[^stops]+\.ext) at the 0-based index i of the lower-cased text:
\* the index after the match (greedy: the last extension in the run of
\* characters that are not stops), else -1.
FileEnd(low, i, stops) ==
    LET ends == {e \in (i + 1)..RunEnd(low, i, stops) :
                    \E x \in RasterExts :
                        e - Len(x) > i /\ MatchAt(low, x, e - Len(x))}
    IN  IF ends = {} THEN -1 ELSE CHOOSE e \in ends : \A k \in ends : k <= e

\* images/(?!logo\.)(?P<file>...) at i: the index after the match, else -1.
ImagesFileEnd(low, i, stops) ==
    IF MatchAt(low, images_dir, i) /\ ~MatchAt(low, logo_dot, i + Len(images_dir))
    THEN FileEnd(low, i + Len(images_dir), stops)
    ELSE -1

RECURSIVE DotSegments(_, _)
\* (?:\./|\.\./)* at i: the index after it.
DotSegments(low, i) ==
    IF MatchAt(low, <<".", "/">>, i) THEN DotSegments(low, i + 2)
    ELSE IF MatchAt(low, <<".", ".", "/">>, i) THEN DotSegments(low, i + 3)
    ELSE i

\* lead, images/ and file at q: <<index of images/, index after the match>>,
\* else None.
LeadMatchAt(low, q) ==
    LET slash == IF MatchAt(low, <<"/">>, q)
                 THEN ImagesFileEnd(low, q + 1, RelStops) ELSE -1
        d == DotSegments(low, q)
        dots == ImagesFileEnd(low, d, RelStops)
    IN  IF slash # -1 THEN <<q + 1, slash>>
        ELSE IF dots # -1 THEN <<d, dots>>
        ELSE None

\* rel_pat at p: the prefix is the start of the text or one character.
RelMatchAt(low, p) ==
    IF p = 0 /\ LeadMatchAt(low, 0) # None THEN LeadMatchAt(low, 0)
    ELSE IF p < Len(low) /\ low[p + 1] \in RelPrefixes THEN LeadMatchAt(low, p + 1)
    ELSE None

\* https?:// at p: the index after it, else -1.
SchemeEnd(low, p) ==
    IF MatchAt(low, <<"h","t","t","p","s",":","/","/">>, p) THEN p + 8
    ELSE IF MatchAt(low, <<"h","t","t","p",":","/","/">>, p) THEN p + 7
    ELSE -1

\* The indexes a base that starts at h may end at.
BaseEnds(low, h) ==
    {b \in (h + 1)..RunEnd(low, h, AbsStops) :
        /\ MatchAt(low, <<"/">>, b)
        /\ ImagesFileEnd(low, b + 1, AbsStops) # -1}

\* The match whose base is the shortest of those that end at bases.
ShortestBase(low, bases) ==
    IF bases = {} THEN None
    ELSE <<1 + CHOOSE x \in bases : \A y \in bases : x <= y,
           ImagesFileEnd(low, 1 + CHOOSE x \in bases : \A y \in bases : x <= y,
                         AbsStops)>>

\* abs_pat at p: the base is the shortest that works.
AbsMatchAt(low, p) ==
    IF SchemeEnd(low, p) = -1 THEN None
    ELSE ShortestBase(low, BaseEnds(low, SchemeEnd(low, p)))

\* The match of the pattern (rel_pat if rel, else abs_pat) at p.
PatMatchAt(low, p, rel) == IF rel THEN RelMatchAt(low, p) ELSE AbsMatchAt(low, p)

\* The text from pos on with the match m replaced, followed by the rest
\* (what the substitution gave from the end of m on).
Replaced(s, pos, m, rest) ==
    << Slice(s, pos, m[1]) \o images_autoedited_dir
           \o Slice(s, m[1] + Len(images_dir), m[2]) \o rest[1],
       1 + rest[2] >>

RECURSIVE PatSub(_, _, _, _)
RECURSIVE SubMatch(_, _, _, _, _)
RECURSIVE SubFirst(_, _, _, _, _)
\* The match m is replaced and the substitution goes on after it.
SubMatch(s, low, pos, rel, m) == Replaced(s, pos, m, PatSub(s, low, m[2], rel))

\* The leftmost of the matches that start at hits is replaced.
SubFirst(s, low, pos, rel, hits) ==
    IF hits = {} THEN <<Slice(s, pos, Len(s)), 0>>
    ELSE SubMatch(s, low, pos, rel,
                  PatMatchAt(low, CHOOSE x \in hits : \A y \in hits : x <= y, rel))

\* pattern.sub(_rel_sub or _abs_sub, s) from the 0-based index pos on:
\* <<the text, the number of replacements>>.
PatSub(s, low, pos, rel) ==
    SubFirst(s, low, pos, rel, {p \in pos..Len(s) : PatMatchAt(low, p, rel) # None})

\* The second substitution, on the result r of the first, and the total.
AbsRewritten(r) ==
    <<PatSub(r[1], Lower(r[1]), 0, FALSE)[1],
      r[2] + PatSub(r[1], Lower(r[1]), 0, FALSE)[2]>>

\* <<content rewritten, total>>
_rewrite_content(c) == AbsRewritten(PatSub(c, Lower(c), 0, TRUE))

(***************************************************************************)
(* switch_image_paths_to_autoedited: main                                  *)
(***************************************************************************)

\* The most runs of the tool on one site.
MaxRuns == 2

include_exts == {".html", ".css", ".xml", ".js"}

skip_dirs == {".git", ".venv", "node_modules", "images", "images_autoedited"}

\* The values of --backup-suffix: the default, one that is an extension of
\* text files, and the empty one.
BackupSuffixes == {".bak_imageswitch", ".html", ""}

\* A path under the root: the directory ("" for the root itself) and the
\* name, as its stem followed by its suffixes.
PathOf(dir, name) == [dir |-> dir, name |-> name]

\* p.suffix
SuffixOf(p) == IF Len(p.name) >= 2 THEN p.name[Len(p.name)] ELSE ""

\* r.file.with_name(r.file.name + args.backup_suffix)
BackupPath(p, backup_suffix) ==
    IF backup_suffix = "" THEN p
    ELSE [p EXCEPT !.name = Append(@, backup_suffix)]

\* The pieces of names, in the order of str.
NamePieces == <<".bak_imageswitch", ".css", ".html", "a", "b", "g">>

PieceRank(x) == CHOOSE k \in 1..Len(NamePieces) : NamePieces[k] = x

\* m < n for names of files in one directory.
NameBefore(m, n) ==
    \E k \in 1..(Len(n)) :
        /\ \A j \in 1..(k - 1) : j <= Len(m) /\ m[j] = n[j]
        /\ \/ k = Len(m) + 1
           \/ k <= Len(m) /\ PieceRank(m[k]) < PieceRank(n[k])

\* sorted(files), for files of one directory.
SortedPaths(S) ==
    [k \in 1..Cardinality(S) |->
        CHOOSE p \in S : Cardinality({q \in S : NameBefore(q.name, p.name)}) = k - 1]

\* _iter_text_files: the regular files outside the skipped directories
\* that have one of the extensions.
_iter_text_files ==
    SortedPaths({p \in DOMAIN disk :
                    /\ disk[p] # Directory
                    /\ p.dir \notin skip_dirs
                    /\ SuffixOf(p) \in include_exts})

\* count and after != before, <<after, count>> being r.
Differs(before, r) == r[2] > 0 /\ r[1] # before

\* The candidate f is to be rewritten.
IsPlanned(f) == Differs(ReadText(disk[f]), _rewrite_content(ReadText(disk[f])))

RewriteResult(f) ==
    [file |-> f, replacements |-> _rewrite_content(ReadText(disk[f]))[2]]

RewriteResults(chosen) == AsSeq([k \in 1..Len(chosen) |-> RewriteResult(chosen[k])])

\* The candidates with count and after != before.
PlannedResults == RewriteResults(SelectSeq(_iter_text_files, IsPlanned))

\* Mutant: the plan is applied whether or not --apply was given.
AfterPlanAlwaysApplies(planned, apply) ==
    IF planned = <<>> THEN "unchanged" ELSE "backup"

\* Where main goes once the plan is made: "No changes needed.", the dry-run
\* listing, or the loop that applies the plan.
AfterPlan(planned, apply) ==
    IF planned = <<>> THEN "unchanged"
    ELSE IF ~apply THEN "planned"
    ELSE "backup"

\* Pages that refer to an image by a relative path (with LF and with CR LF
\* line ends), to the logo only, and by a URL whose path has images/ twice.
refers_relative ==
    <<"<","i","m","g"," ","s","r","c","=","\"","i","m","a","g","e","s","/",
      "a",".","p","n","g","\"",">","\n">>

refers_relative_crlf ==
    <<"<","i","m","g"," ","s","r","c","=","\"","i","m","a","g","e","s","/",
      "a",".","p","n","g","\"",">","\r","\n">>

refers_logo ==
    <<"<","i","m","g"," ","s","r","c","=","\"","i","m","a","g","e","s","/",
      "l","o","g","o",".","p","n","g","\"",">">>

refers_url ==
    <<"u","r","l","(","h","t","t","p","s",":","/","/","x",".","c","o","m","/",
      "i","m","a","g","e","s","/","i","m","a","g","e","s","/","b",".","p","n","g",")">>

a_html == PathOf("", <<"a", ".html">>)

b_css == PathOf("", <<"b", ".css">>)

g_html == PathOf("images", <<"g", ".html">>)

\* The sites: a.html always, b.css and images/g.html perhaps.
SwitchSites ==
    {[p \in {a_html} \cup bs \cup gs |->
         IF p = a_html THEN a ELSE IF p = b_css THEN refers_url ELSE refers_relative] :
        a \in {refers_relative, refers_relative_crlf, refers_logo},
        bs \in {{}, {b_css}},
        gs \in {{}, {g_html}}}

SwitchInit ==
    /\ disk \in SwitchSites
    /\ disk0 = disk
    /\ args \in [apply : BOOLEAN, backup_suffix : BackupSuffixes]
    /\ pc = "start"
    /\ report = <<>>
    /\ todo = <<>>
    /\ local = <<>>
    /\ results = <<>>
    /\ calls = <<>>
    /\ writes = <<>>
    /\ doc = <<>>
    /\ NoText

\* The plan is made: main returns, or goes on to apply it.
PlanMade(planned) ==
    /\ results' = planned
    /\ pc' = AfterPlan(planned, args.apply)
    /\ todo' = IF AfterPlan(planned, args.apply) = "backup" THEN planned ELSE <<>>

\* main up to the loop that applies: the candidates are read and the plan
\* is made and printed; without --apply, or with nothing planned, main
\* returns 0.
SwitchPlan ==
    /\ pc = "start"
    /\ calls' = Append(calls, "main")
    /\ PlanMade(PlannedResults)
    /\ UNCHANGED <<doc, disk, disk0, args, report, local, writes>>
    /\ UNCHANGED textvars

\* before is kept, and written to backup_path unless that exists.
BackedUp(backup_path, before) ==
    /\ local' = [before |-> before]
    /\ IF backup_path \notin DOMAIN disk
       THEN WriteText(backup_path, before)
       ELSE UNCHANGED <<disk, writes>>

\* The file is read again and its backup is written unless it exists.
SwitchBackup ==
    /\ pc = "backup"
    /\ todo # <<>>
    /\ BackedUp(BackupPath(Head(todo).file, args.backup_suffix),
                ReadText(disk[Head(todo).file]))
    /\ pc' = "write"
    /\ UNCHANGED <<doc, disk0, args, report, todo, results, calls>>
    /\ UNCHANGED textvars

\* _write_text(r.file, after)
SwitchWrite ==
    /\ pc = "write"
    /\ WriteText(Head(todo).file, _rewrite_content(local.before)[1])
    /\ todo' = Tail(todo)
    /\ local' = <<>>
    /\ pc' = "backup"
    /\ UNCHANGED <<doc, disk0, args, report, results, calls>>
    /\ UNCHANGED textvars

\* "Applied: ..."; main returns 0.
SwitchApplied ==
    /\ pc = "backup"
    /\ todo = <<>>
    /\ pc' = "applied"
    /\ UNCHANGED <<doc, disk, disk0, args, report, todo, local, results, calls, writes>>
    /\ UNCHANGED textvars

\* The tool is run again on the same site, with or without --apply.
SwitchAgain ==
    /\ pc \in {"unchanged", "planned", "applied"}
    /\ Len(calls) < MaxRuns
    /\ args' \in [apply : BOOLEAN, backup_suffix : {args.backup_suffix}]
    /\ pc' = "start"
    /\ results' = <<>>
    /\ UNCHANGED <<doc, disk, disk0, report, todo, local, calls, writes>>
    /\ UNCHANGED textvars

SwitchNext ==
    \/ SwitchPlan
    \/ SwitchBackup
    \/ SwitchWrite
    \/ SwitchApplied
    \/ SwitchAgain

SpecSwitch == SwitchInit /\ [][SwitchNext]_vars

(***************************************************************************)
(* generate_service_pages: _clamp_title, _clamp_meta_description           *)
(***************************************************************************)

TITLE_MIN_LEN == 30

TITLE_MAX_LEN == 60

META_DESC_MIN_LEN == 70

META_DESC_MAX_LEN == 160

BUSINESS_NAME == <<"M","i","d","w","e","s","t"," ","F","l","i","p"," ","L","L","C">>

\* text.split(): the maximal runs of characters that are not whitespace.
Words(s) ==
    LET idx == [i \in 1..Len(s) |-> i]
        Starts(i) == s[i] \notin Whitespace /\ (i = 1 \/ s[i - 1] \in Whitespace)
        starts == SelectSeq(idx, Starts)
        End(i) == IF FirstIn(s, Whitespace, i) = 0 THEN Len(s)
                  ELSE FirstIn(s, Whitespace, i) - 1
    IN  AsSeq([k \in 1..Len(starts) |-> SubSeq(s, starts[k], End(starts[k]))])

\* _normalize_space of the generator: " ".join((text or "").split()).strip()
GenNormalizeSpace(s) == Strip(Join(Words(s), <<" ">>))

\* The generator's cut of a normalized text longer than max_len.
GenCut(s, hi, cut) ==
    IF cut <= 0 THEN Strip(Slice(s, 0, hi))
    ELSE Strip(Slice(s, 0, cut))

GenTrimNormalized(s, hi) ==
    IF Len(s) <= hi THEN s
    ELSE GenCut(s, hi, RFind(s, <<" ">>, 0, hi + 1))

\* _trim_to_word_boundary of the generator: the text is cut at the last
\* space at or before max_len, no sentence end is looked for.
GenTrimToWordBoundary(s, hi) ==
    GenTrimNormalized(GenNormalizeSpace(s), hi)

\* candidate = _normalize_space((text + " " + suffix).strip()) if text else suffix
GenCandidate(s, suffix) ==
    IF Len(s) > 0 THEN GenNormalizeSpace(Strip(s \o <<" ">> \o suffix))
    ELSE suffix

\* if len(candidate) <= max_len: text = candidate
GenTaken(s, candidate, hi) ==
    IF Len(candidate) <= hi THEN candidate ELSE s

RECURSIVE GenExtendLoop(_, _, _, _)
\* The loop over the generator's two suffixes from the k-th on: the text it
\* leaves.
GenExtendLoop(s, k, lo, hi) ==
    IF k > Len(suffixes) THEN s
    ELSE IF Len(GenTaken(s, GenCandidate(s, suffixes[k]), hi)) >= lo
    THEN GenTaken(s, GenCandidate(s, suffixes[k]), hi)
    ELSE GenExtendLoop(GenTaken(s, GenCandidate(s, suffixes[k]), hi),
                       k + 1, lo, hi)

GenExtendNormalized(s, lo, hi) ==
    IF Len(s) >= lo THEN GenTrimToWordBoundary(s, hi)
    ELSE GenTrimToWordBoundary(GenExtendLoop(s, 1, lo, hi), hi)

\* _extend_description of the generator.
GenExtendDescription(s, lo, hi) ==
    GenExtendNormalized(GenNormalizeSpace(s), lo, hi)

\* candidate = _normalize_space(f"{meta_title} | {BUSINESS_NAME}") if
\* meta_title else BUSINESS_NAME
WithBusinessName(meta_title) ==
    IF Len(meta_title) > 0
    THEN GenNormalizeSpace(meta_title \o <<" ", "|", " ">> \o BUSINESS_NAME)
    ELSE BUSINESS_NAME

\* if len(meta_title) < TITLE_MIN_LEN: ...
ClampShortTitle(meta_title) ==
    IF Len(meta_title) >= TITLE_MIN_LEN THEN meta_title
    ELSE IF Contains(Lower(meta_title), Lower(BUSINESS_NAME)) THEN meta_title
    ELSE GenTrimToWordBoundary(WithBusinessName(meta_title), TITLE_MAX_LEN)

\* if len(meta_title) > TITLE_MAX_LEN: ...
ClampLongTitle(meta_title) ==
    IF Len(meta_title) > TITLE_MAX_LEN
    THEN GenTrimToWordBoundary(meta_title, TITLE_MAX_LEN)
    ELSE meta_title

_clamp_title(meta_title) ==
    ClampShortTitle(ClampLongTitle(GenNormalizeSpace(meta_title)))

ClampShortDescription(meta_description) ==
    IF Len(meta_description) < META_DESC_MIN_LEN
    THEN GenExtendDescription(meta_description, META_DESC_MIN_LEN, META_DESC_MAX_LEN)
    ELSE meta_description

ClampLongDescription(meta_description) ==
    IF Len(meta_description) > META_DESC_MAX_LEN
    THEN GenTrimToWordBoundary(meta_description, META_DESC_MAX_LEN)
    ELSE meta_description

_clamp_meta_description(meta_description) ==
    ClampShortDescription(ClampLongDescription(GenNormalizeSpace(meta_description)))

\* The pieces meta titles and meta descriptions are concatenated from.
MetaPieces ==
    << <<"R","o","o","f","i","n","g">>,
       <<" ", "\t">>,
       BUSINESS_NAME,
       <<" ","|"," ">>,
       <<"K","i","t","c","h","e","n"," ","a","n","d"," ","b","a","t","h"," ",
         "r","e","m","o","d","e","l","i","n","g"," ","i","n"," ","D","e","t",
         "r","o","i","t","."," ">>,
       <<"R","o","o","f"," ","r","e","p","a","i","r",","," ","s","i","d","i",
         "n","g"," ","a","n","d"," ","g","u","t","t","e","r","s"," ","f","o",
         "r"," ","h","o","m","e","s"," ","i","n"," ","M","e","t","r","o"," ",
         "D","e","t","r","o","i","t","!"," ">> >>

\* Most pieces of such a text.
MaxMetaPieces == 3

MetaTexts ==
    UNION {{Concat(AsSeq([i \in 1..k |-> MetaPieces[f[i]]])) :
               f \in [1..k -> 1..Len(MetaPieces)]} : k \in 0..MaxMetaPieces}

GenerateInit ==
    /\ text \in MetaTexts
    /\ min_len = 0
    /\ max_len = 0
    /\ op = "input"
    /\ result = <<>>
    /\ round = 0
    /\ NoFiles

\* meta_title = _clamp_title(str(meta_title)) in render_page
ClampTitle ==
    /\ op = "input"
    /\ result' = _clamp_title(text)
    /\ op' = "_clamp_title"
    /\ min_len' = TITLE_MIN_LEN
    /\ max_len' = TITLE_MAX_LEN
    /\ UNCHANGED <<text, round>>
    /\ UNCHANGED filevars

\* meta_description = _clamp_meta_description(str(meta_description))
ClampMetaDescription ==
    /\ op = "input"
    /\ result' = _clamp_meta_description(text)
    /\ op' = "_clamp_meta_description"
    /\ min_len' = META_DESC_MIN_LEN
    /\ max_len' = META_DESC_MAX_LEN
    /\ UNCHANGED <<text, round>>
    /\ UNCHANGED filevars

\* The fixer's _smart_title on the generated title, which becomes text.
FixGeneratedTitle ==
    /\ op = "_clamp_title"
    /\ text' = result
    /\ result' = _smart_title(result, min_len, max_len)
    /\ op' = "_smart_title"
    /\ round' = 1
    /\ UNCHANGED <<min_len, max_len>>
    /\ UNCHANGED filevars

\* The fixer's description steps on the generated description.
FixGeneratedDescription ==
    /\ op = "_clamp_meta_description"
    /\ text' = result
    /\ result' = FixDescription(result, min_len, max_len)
    /\ op' = "FixDescription"
    /\ round' = 1
    /\ UNCHANGED <<min_len, max_len>>
    /\ UNCHANGED filevars

GenerateNext ==
    \/ ClampTitle
    \/ ClampMetaDescription
    \/ FixGeneratedTitle
    \/ FixGeneratedDescription

SpecGenerate == GenerateInit /\ [][GenerateNext]_vars

(***************************************************************************)
(* add_matomo_to_heads: process_file                                       *)
(***************************************************************************)

MATOMO_SNIPPET ==
    <<"<","!","-","-"," ","M","a","t","o","m","o"," ","-","-",">","\n",
    "<","s","c","r","i","p","t",">","\n"," "," ","v","a","r"," ","_",
    "p","a","q"," ","="," ","w","i","n","d","o","w",".","_","p","a","q",
    " ","="," ","w","i","n","d","o","w",".","_","p","a","q"," ","|","|",
    " ","[","]",";","\n"," "," ","/","*"," ","t","r","a","c","k","e",
    "r"," ","m","e","t","h","o","d","s"," ","l","i","k","e"," ","\"",
    "s","e","t","C","u","s","t","o","m","D","i","m","e","n","s","i","o",
    "n","\""," ","s","h","o","u","l","d"," ","b","e"," ","c","a","l",
    "l","e","d"," ","b","e","f","o","r","e"," ","\"","t","r","a","c",
    "k","P","a","g","e","V","i","e","w","\""," ","*","/","\n"," "," ",
    "_","p","a","q",".","p","u","s","h","(","[","'","t","r","a","c","k",
    "P","a","g","e","V","i","e","w","'","]",")",";","\n"," "," ","_",
    "p","a","q",".","p","u","s","h","(","[","'","e","n","a","b","l","e",
    "L","i","n","k","T","r","a","c","k","i","n","g","'","]",")",";",
    "\n"," "," ","(","f","u","n","c","t","i","o","n","(",")"," ","{",
    "\n"," "," "," "," ","v","a","r"," ","u","=","\"","h","t","t","p",
    "s",":","/","/","a","l","p","h","a","l","o","c","k","a","n","d","s",
    "a","f","e",".","m","a","t","o","m","o",".","c","l","o","u","d","/",
    "\"",";","\n"," "," "," "," ","_","p","a","q",".","p","u","s","h",
    "(","[","'","s","e","t","T","r","a","c","k","e","r","U","r","l","'",
    ","," ","u","+","'","m","a","t","o","m","o",".","p","h","p","'","]",
    ")",";","\n"," "," "," "," ","_","p","a","q",".","p","u","s","h",
    "(","[","'","s","e","t","S","i","t","e","I","d","'",","," ","'","2",
    "'","]",")",";","\n"," "," "," "," ","v","a","r"," ","d","=","d",
    "o","c","u","m","e","n","t",","," ","g","=","d",".","c","r","e","a",
    "t","e","E","l","e","m","e","n","t","(","'","s","c","r","i","p","t",
    "'",")",","," ","s","=","d",".","g","e","t","E","l","e","m","e","n",
    "t","s","B","y","T","a","g","N","a","m","e","(","'","s","c","r","i",
    "p","t","'",")","[","0","]",";","\n"," "," "," "," ","g",".","a",
    "s","y","n","c","=","t","r","u","e",";"," ","g",".","s","r","c","=",
    "'","h","t","t","p","s",":","/","/","c","d","n",".","m","a","t","o",
    "m","o",".","c","l","o","u","d","/","a","l","p","h","a","l","o","c",
    "k","a","n","d","s","a","f","e",".","m","a","t","o","m","o",".","c",
    "l","o","u","d","/","m","a","t","o","m","o",".","j","s","'",";"," ",
    "s",".","p","a","r","e","n","t","N","o","d","e",".","i","n","s","e",
    "r","t","B","e","f","o","r","e","(","g",",","s",")",";","\n"," ",
    " ","}",")","(",")",";","\n","<","/","s","c","r","i","p","t",">",
    "\n","<","!","-","-"," ","E","n","d"," ","M","a","t","o","m","o",
    " ","C","o","d","e"," ","-","-",">">>

matomo_cloud ==
    <<"m","a","t","o","m","o",".","c","l","o","u","d","/","a","l","p","h",
    "a","l","o","c","k","a","n","d","s","a","f","e",".","m","a","t","o",
    "m","o",".","c","l","o","u","d">>

Matomo == <<"M","a","t","o","m","o">>

\* Mutant: no content is taken to hold the snippet.
HasMatomoNever(c) == FALSE

has_matomo(c) == Contains(c, matomo_cloud) \/ Contains(c, Matomo)

\* f"{before}{spacer}{MATOMO_SNIPPET}\n{after}", the cut being at insert_at.
InsertedAt(c, insert_at) ==
    IF insert_at = -1 THEN None
    ELSE Slice(c, 0, insert_at)
             \o (IF insert_at > 0 /\ c[insert_at] = "\n" THEN <<>> ELSE <<"\n">>)
             \o MATOMO_SNIPPET \o <<"\n">> \o Slice(c, insert_at, Len(c))

\* The updated content, or None.
insert_before_head_close(c) ==
    IF ~Contains(c, head_close) THEN None
    ELSE IF has_matomo(c) THEN None
    ELSE InsertedAt(c, RFind(Lower(c), head_close, 0, Len(c)))

\* How often the snippet occurs in c.
SnippetCount(c) ==
    Cardinality({i \in 0..(Len(c) - Len(MATOMO_SNIPPET)) : MatchAt(c, MATOMO_SNIPPET, i)})

\* Most process_file runs on the file.
MaxMatomoRuns == 3

\* The pieces of the pages: what opens the document, what the head holds,
\* how the head is closed, and what follows.
MatomoOpenings ==
    { <<>>, <<"<","h","t","m","l",">","\n","<","h","e","a","d",">","\n">> }

MatomoHeads ==
    { <<>>,
      <<"<","t","i","t","l","e",">","A","<","/","t","i","t","l","e",">">>,
      <<"<","t","i","t","l","e",">","A","<","/","t","i","t","l","e",">","\n">>,
      <<"<","t","i","t","l","e",">","A","<","/","t","i","t","l","e",">","\r","\n">>,
      <<"<","!","-","-"," ","M","a","t","o","m","o"," ","s","o","o","n"," ","-","-",">","\n">>,
      MATOMO_SNIPPET \o <<"\n">> }

MatomoHeadCloses ==
    { <<>>, head_close, <<"<","/","H","E","A","D",">">> }

MatomoBodies ==
    { <<>>,
      <<"\n","<","b","o","d","y",">","<","/","b","o","d","y",">">>,
      <<"<","b","o","d","y",">","<","p",">","<","/","h","e","a","d",">","<","/","p",">","<","/","B","O","D","Y",">">> }

MatomoPages ==
    {o \o h \o c \o b : o \in MatomoOpenings, h \in MatomoHeads,
                        c \in MatomoHeadCloses, b \in MatomoBodies}

MatomoInit ==
    /\ \E d \in MatomoPages : disk = [f \in {"index.html"} |-> d]
    /\ disk0 = disk
    /\ args = <<>>
    /\ pc = "call"
    /\ report = <<>>
    /\ todo = <<>>
    /\ local = <<>>
    /\ results = <<>>
    /\ calls = <<>>
    /\ writes = <<>>
    /\ doc = <<>>
    /\ NoText

\* process_file(f), updated being what insert_before_head_close returned:
\* the file is written unless that is None, and the call returns whether it
\* was.
ProcessFileOn(f, updated) ==
    /\ calls' = Append(calls, f)
    /\ results' = Append(results, updated # None)
    /\ IF updated = None THEN UNCHANGED <<disk, writes>>
       ELSE WriteText(f, updated)

process_file ==
    /\ pc = "call"
    /\ Len(calls) < MaxMatomoRuns
    /\ \E f \in DOMAIN disk : ProcessFileOn(f, insert_before_head_close(ReadText(disk[f])))
    /\ UNCHANGED <<doc, disk0, args, report, pc, todo, local>>
    /\ UNCHANGED textvars

MatomoNext == process_file

SpecMatomo == MatomoInit /\ [][MatomoNext]_vars

(***************************************************************************)
(* Properties                                                              *)
(***************************************************************************)

\* The whitespace-normalized argument of the last call.
NormText == _normalize_space(text)

\* p is a prefix of s.
IsPrefix(p, s) == Len(p) <= Len(s) /\ SubSeq(s, 1, Len(p)) = p

\* d followed by the suffix s, as the extension joins them.
WithSuffix(d, s) == IF Len(d) = 0 THEN s ELSE d \o <<" ">> \o s

\* The 0-based indices <= max_len at which t holds a space.
SpacesUpTo(t, m) == {i \in 0..Min2(m, Len(t) - 1) : t[i + 1] = " "}

SetMax(S) == CHOOSE x \in S : \A y \in S : y <= x

\* C1: the title returned by _smart_title is never longer than max_len,
\* whatever the input and the window.
C1_TitleAtMostMax == op = "title" => Len(result) <= max_len

\* A title longer than a non-degenerate max_len has been cut down to it.
C1_Witness ==
    /\ op = "title"
    /\ round = 1
    /\ max_len > 0
    /\ Len(NormText) > max_len
    /\ Len(result) <= max_len
    /\ Len(result) > 0

\* C2: the description returned by _extend_description is never longer than
\* max_len: no suffix is appended that would not fit.
C2_ExtendAtMostMax == op = "extend" => Len(result) <= max_len

\* A description shorter than min_len got something appended and still fits.
C2_Witness ==
    /\ op = "extend"
    /\ Len(NormText) > 0
    /\ Len(NormText) < min_len
    /\ Len(result) > Len(NormText)
    /\ Len(result) <= max_len

\* C3: with the default title window, _smart_title returns a non-empty title
\* of 30 to 60 characters for every input, the empty one included.
C3_DefaultTitleInWindow ==
    (op = "title" /\ min_len = TITLE_MIN /\ max_len = TITLE_MAX)
        => (result # <<>> /\ Len(result) >= TITLE_MIN /\ Len(result) <= TITLE_MAX)

\* The empty title, default window: the worst-case fallback is returned.
C3_Witness ==
    /\ op = "title"
    /\ round = 1
    /\ min_len = TITLE_MIN
    /\ max_len = TITLE_MAX
    /\ text = <<>>
    /\ result = fallback

\* C4: with the default description window, the description steps of fix_file
\* yield 70 to 160 characters, and a description shorter than 70 comes back
\* as itself followed by at least one suffix of the list.
C4_DefaultDescriptionInWindow ==
    (op = "desc" /\ min_len = DESC_MIN /\ max_len = DESC_MAX)
        => /\ Len(result) >= DESC_MIN
           /\ Len(result) <= DESC_MAX
           /\ Len(text) < DESC_MIN =>
                 \E k \in 1..Len(suffixes) :
                     IsPrefix(WithSuffix(text, suffixes[k]), result)

\* A short, non-empty description was extended into the default window.
C4_Witness ==
    /\ op = "desc"
    /\ round = 1
    /\ min_len = DESC_MIN
    /\ max_len = DESC_MAX
    /\ Len(text) > 0
    /\ Len(text) < DESC_MIN
    /\ Len(result) >= DESC_MIN
    /\ IsPrefix(WithSuffix(text, suffixes[1]), result)

\* C5: an input whose whitespace-normalized length already lies in the window
\* is returned as its whitespace-normalized self by _smart_title, by
\* _extend_description, by _trim_to_word_boundary and by the description steps.
C5_InWindowUnchanged ==
    LET t == NormText
    IN  (op \in {"title", "extend", "trim", "desc"} /\ Len(t) >= min_len /\ Len(t) <= max_len)
            => result = t

\* A title with stray whitespace, in the window once normalized, came back
\* normalized and otherwise untouched.
C5_Witness ==
    /\ op = "title"
    /\ round = 1
    /\ text # NormText
    /\ Len(NormText) >= min_len
    /\ Len(NormText) <= max_len
    /\ max_len > 0
    /\ result = NormText

\* C6: _smart_title is idempotent for every window: called on the title it
\* returned, it returns that title again.
C6_TitleIdempotent == (op = "title" /\ round = 2) => result = text

\* C7: the description steps are idempotent for every window: run on the
\* description they produced, they return it unchanged.
C7_DescriptionIdempotent == (op = "desc" /\ round = 2) => result = text

\* The sentence ends (0-based index of the mark) that lie, mark and space,
\* inside the window text[max(0, max_len - 60) : max_len].
SentenceEnds(t, m, mark) ==
    {i \in Max2(0, m - SENTENCE_WINDOW)..(Min2(m, Len(t)) - 2) :
        t[i + 1] = mark /\ t[i + 2] = " "}

\* The first mark of the list that ends a sentence in the window, 0 if none.
FirstMark(t, m) ==
    IF \A k \in 1..Len(PUNCTS) : SentenceEnds(t, m, PUNCTS[k][1]) = {} THEN 0
    ELSE CHOOSE k \in 1..Len(PUNCTS) :
            /\ SentenceEnds(t, m, PUNCTS[k][1]) # {}
            /\ \A j \in 1..(k - 1) : SentenceEnds(t, m, PUNCTS[j][1]) = {}

\* The cut at the last space at an index <= max_len, else at max_len.
LastSpaceCut(t, m) ==
    IF SpacesUpTo(t, m) # {} THEN SubSeq(t, 1, SetMax(SpacesUpTo(t, m)))
    ELSE SubSeq(t, 1, m)

\* C8 as stated: a text longer than max_len is cut at the last space at an
\* index <= max_len, and at max_len only when there is no such space.
C8_Original ==
    LET t == NormText
    IN  (op = "trim" /\ Len(t) > max_len) => result = LastSpaceCut(t, max_len)

\* C8 amended: a text longer than max_len is cut right after the last
\* occurrence, in the 60 characters before max_len, of the first of the
\* sentence ends ". ", "! ", "? ", "; " that occurs there; when none occurs,
\* at the last space at an index <= max_len, and at max_len only when there
\* is no such space.
C8_TrimCut ==
    LET t == NormText
        k == FirstMark(t, max_len)
    IN  (op = "trim" /\ Len(t) > max_len)
            => IF k = 0 THEN result = LastSpaceCut(t, max_len)
               ELSE result = SubSeq(t, 1,
                        SetMax(SentenceEnds(t, max_len, PUNCTS[k][1])) + 1)

\* A text cut after a sentence end although a later space was within reach.
C8_Witness ==
    /\ op = "trim"
    /\ Len(NormText) > max_len
    /\ FirstMark(NormText, max_len) # 0
    /\ result # LastSpaceCut(NormText, max_len)
    /\ Len(result) > 0

\* C9: a text longer than max_len that has a space at an index <= max_len is
\* cut at a word boundary: the result is a proper prefix and the character
\* after it is a space.
C9_NoWordSplit ==
    LET t == NormText
    IN  (op = "trim" /\ Len(t) > max_len /\ SpacesUpTo(t, max_len) # {})
            => /\ Len(result) < Len(t)
               /\ IsPrefix(result, t)
               /\ t[Len(result) + 1] = " "

\* A text cut at a space that lies in the middle of the text, no sentence
\* end being involved.
C9_Witness ==
    /\ op = "trim"
    /\ Len(NormText) > max_len
    /\ SpacesUpTo(NormText, max_len) # {}
    /\ FirstMark(NormText, max_len) = 0
    /\ Len(result) > 0
    /\ Len(result) < max_len
    /\ NormText[Len(result) + 1] = " "

\* The texts made of the suffixes and the pad, each at most once, in the
\* order of the code, joined by single spaces.
SuffixTexts ==
    LET items == suffixes \o <<extra>>
        Pick(S) == SelectSeq(AsSeq([k \in 1..Len(items) |->
                                        IF k \in S THEN items[k] ELSE <<>>]),
                             NonEmpty)
    IN  {Join(Pick(S), <<" ">>) : S \in SUBSET (1..Len(items))}

AppendedItems(S) ==
    LET items == suffixes \o <<extra>>
    IN  SelectSeq(AsSeq([k \in 1..Len(items) |->
                            IF k \in S THEN items[k] ELSE <<>>]),
                  NonEmpty)

\* d followed by the items of S, joined by single spaces.
ExtendedBy(d, S) == Join(SelectSeq(<<d>> \o AppendedItems(S), NonEmpty), <<" ">>)

\* C11: on an input shorter than min_len, _extend_description returns the
\* input followed by suffixes taken in their fixed order (no later one before
\* an earlier one), and it stops as soon as min_len is satisfied: without the
\* last appended item the text is shorter than min_len.
C11_SuffixOrderAndStop ==
    (op = "extend" /\ Len(NormText) < min_len)
        => \E S \in SUBSET (1..(Len(suffixes) + 1)) :
              /\ result = ExtendedBy(NormText, S)
              /\ S # {} => Len(ExtendedBy(NormText, S \ {SetMax(S)})) < min_len

\* A short description that needed both suffixes and the pad: each was
\* appended because the text before it was still short of min_len.
C11_Witness ==
    /\ op = "extend"
    /\ Len(NormText) > 0
    /\ Len(NormText) < min_len
    /\ result = ExtendedBy(NormText, {1, 2, 3})
    /\ Len(ExtendedBy(NormText, {1, 2})) < min_len
    /\ Len(ExtendedBy(NormText, {1})) < min_len

\* C12: with the default window (30, 60), a title whose whitespace-normalized
\* length is below 30 comes back containing 'midwest flip' in some letter
\* case, whether or not it named the brand already.
C12_ShortTitleNamesBrand ==
    (op = "title" /\ min_len = TITLE_MIN /\ max_len = TITLE_MAX
                  /\ Len(NormText) < TITLE_MIN)
        => Contains(Lower(result), kw_midwest_flip)

\* A short title without the brand got ' | Midwest Flip LLC' appended and
\* was returned as that, not as the worst-case fallback.
C12_Witness ==
    /\ op = "title"
    /\ round = 1
    /\ min_len = TITLE_MIN
    /\ max_len = TITLE_MAX
    /\ Len(NormText) > 0
    /\ Len(NormText) < TITLE_MIN
    /\ ~Contains(Lower(NormText), kw_midwest_flip)
    /\ IsPrefix(NormText \o BAR \o BRAND, result)
    /\ result # fallback

\* The brand segment and the descriptors of a title, as the shorten block
\* takes them from its segments.
BrandOf(t) == FirstBrand(Parts(t), 1)

DescriptorsOf(t) ==
    LET brand == BrandOf(t)
        NotBrand(p) == p # brand
    IN  SelectSeq(Parts(t), NotBrand)

\* Descriptor i comes before descriptor j: more keywords, then shorter, then
\* earlier in the title.
Before(d, i, j) ==
    \/ KeywordCount(d[i]) > KeywordCount(d[j])
    \/ /\ KeywordCount(d[i]) = KeywordCount(d[j])
       /\ \/ Len(d[i]) < Len(d[j])
          \/ (Len(d[i]) = Len(d[j]) /\ i < j)

\* The descriptors in that order.
InOrder(d) ==
    LET n == Len(d)
        o == CHOOSE f \in [1..n -> 1..n] :
                 \A a, b \in 1..n : a < b => Before(d, f[a], f[b])
    IN  AsSeq([k \in 1..n |-> d[o[k]]])

\* The brand followed by the ordered descriptors whose positions are in S
\* and below k, joined by ' | '.
JoinedBefore(brand, d, S, k) ==
    Join(<<brand>> \o SelectSeq(AsSeq([i \in 1..(k - 1) |->
                                          IF i \in S THEN d[i] ELSE <<>>]),
                                NonEmpty),
         BAR)

\* S holds exactly the descriptors that fit max_len when their turn comes,
\* and whose turn comes: while the joined length is below min_len, and for
\* the first descriptor also otherwise if first_always.
Greedy(brand, d, S, lo, hi, first_always) ==
    \A k \in 1..Len(d) :
        k \in S <=>
            /\ (first_always /\ k = 1) \/ Len(JoinedBefore(brand, d, S, k)) < lo
            /\ Len(JoinedBefore(brand, d, S, k) \o BAR \o d[k]) <= hi

\* What the title rebuilt as j is returned as: cut when the brand alone
\* exceeds max_len, replaced by the fallback when short and the fallback fits.
Returned(j, lo, hi) ==
    LET r == IF Len(j) > hi THEN _trim_to_word_boundary(j, hi) ELSE j
    IN  IF Len(r) < lo /\ lo <= Len(fallback) /\ Len(fallback) <= hi
        THEN fallback ELSE r

RebuiltGreedily(first_always) ==
    LET brand == BrandOf(NormText)
        d == InOrder(DescriptorsOf(NormText))
    IN  \E S \in SUBSET (1..Len(d)) :
            /\ Greedy(brand, d, S, min_len, max_len, first_always)
            /\ result = Returned(JoinedBefore(brand, d, S, Len(d) + 1),
                                 min_len, max_len)

\* C13 as stated: a title longer than max_len is rebuilt as the brand segment
\* followed by the descriptors in order of keyword count descending, then
\* length ascending; one is appended only if the joined length stays within
\* max_len, and none once the joined length has reached min_len.
C13_Original ==
    (op = "title" /\ round = 1 /\ Len(NormText) > max_len)
        => RebuiltGreedily(FALSE)

\* C13 amended: the same, except that the first descriptor in that order is
\* always tried; only the later ones are tried while the joined length is
\* below min_len.
C13_ShortenedTitle ==
    (op = "title" /\ round = 1 /\ Len(NormText) > max_len)
        => RebuiltGreedily(TRUE)

\* A long title with the brand in the middle comes back as the brand, then
\* the descriptor with four keywords, although a shorter one came first.
C13_Witness ==
    /\ op = "title"
    /\ round = 1
    /\ min_len = TITLE_MIN
    /\ max_len = TITLE_MAX
    /\ text = Join(<<Segments[4], BRAND, Segments[5]>>, BAR)
    /\ result = Join(<<BRAND, Segments[5]>>, BAR)

\* s is a string: a finite sequence of characters.
IsText(s) == DOMAIN s = 1..Len(s) /\ \A i \in 1..Len(s) : s[i] \in Characters

\* C14: the normalizer is total: on every input text and window, what
\* _trim_to_word_boundary, _extend_description and _smart_title return is a
\* string, never an error value.
C14_Total ==
    op \in {"trim", "extend", "title"} => IsText(result)

\* A window no title can be brought into: the title returned is a string
\* shorter than min_len, no error.
C14_Witness ==
    /\ op = "title"
    /\ round = 1
    /\ min_len > Len(fallback)
    /\ Len(result) < min_len
    /\ Len(result) > 0
    /\ IsText(result)

\* C15: for a document that has a title element and a whitespace-normalized
\* plain string t, _extract_title reads t back from the document that
\* _find_and_replace_title(doc, t) returns.
C15_TitleRoundTrip ==
    (op = "extract" /\ TitleMatch(doc) # None) => result = text

\* A title with text that reads as a character reference and as the closing
\* tag was put in, escaped, and read back as itself.
C15_Witness ==
    /\ op = "extract"
    /\ TitleMatch(doc) # None
    /\ Contains(text, <<"&","l","t",";">>)
    /\ Contains(text, title_close)
    /\ Contains(doc, <<"&","a","m","p",";","l","t",";">>)
    /\ result = text

\* C20: fix_file writes the file and returns changed=True only when the
\* document text it ends with differs from the text it read; otherwise, also
\* when the OG/Twitter tags asked for already hold the current values, the
\* file is not written and changed is False.
C20_ChangedOnlyIfDiffers ==
    pc = "returned" =>
        /\ results[1].changed <=> writes # <<>>
        /\ \A k \in 1..Len(writes) : writes[k].new # ReadText(writes[k].old)

\* C21: after fix_file has processed a file with the default windows and
\* update_og and update_twitter off, a second fix_file on the same file with
\* the same windows returns changed=False and leaves the file as it is.
C21_SecondFixChangesNothing ==
    (pc = "returned again" /\ ~args.update_og /\ ~args.update_twitter) =>
        /\ ~results[2].changed
        /\ \A k \in 1..Len(writes) : writes[k].new = disk["page.html"]

\* The span <<start, end>> of the value of the content attribute of tag, the
\* value ending at the quote that opened it; None without such an attribute.
ContentValue(tag) ==
    LET cm == ContentMatch(tag)
        z == IF cm = None THEN -1 ELSE Find(tag, <<tag[cm[2]]>>, cm[2])
    IN  IF z = -1 THEN None ELSE <<cm[2], z>>

\* The tag with esc as the value of its content attribute and nothing else
\* changed, the attribute created before '>' when the tag has none.
WithContent(tag, esc) ==
    IF ContentValue(tag) = None
    THEN Slice(tag, 0, Len(tag) - 1)
             \o <<" ">> \o content \o <<"=", "\"">> \o esc \o <<"\"", ">">>
    ELSE Slice(tag, 0, ContentValue(tag)[1]) \o esc
             \o Slice(tag, ContentValue(tag)[2], Len(tag))

\* The document with that done to the tag matched by m.
WithContentAt(d, m, esc) ==
    Slice(d, 0, m[1]) \o WithContent(Slice(d, m[1], m[2]), esc)
        \o Slice(d, m[2], Len(d))

\* C22: _replace_meta_content_by_name returns the document unchanged with
\* False when no meta tag carries the name; otherwise it returns True and the
\* document in which only the first such tag differs, its other attributes
\* unchanged and its content value exactly the escaped new content.
C22_OnlyTheContentChanges ==
    op = "replace meta" =>
        IF MetaMatch(doc, attr_name, description) = None
        THEN result = <<doc, FALSE>>
        ELSE result = <<WithContentAt(doc, MetaMatch(doc, attr_name, description),
                                      _escape_attr(text)), TRUE>>

\* C23: for a page that has a title element and a meta description with a
\* content attribute, the audit after fix_file, both with the default
\* thresholds, reports title_ok and meta_description_ok and no title-length
\* or description-length warning.
C23_AuditPassesAfterFix ==
    (/\ pc = "audited"
     /\ TitleMatch(ReadText(disk0["page.html"])) # None
     /\ FindMetaFrom(ReadText(disk0["page.html"]), Lower(ReadText(disk0["page.html"])),
                     description, 0) # None
     /\ AttrGet(FindMetaFrom(ReadText(disk0["page.html"]),
                             Lower(ReadText(disk0["page.html"])), description, 0),
                content) # None) =>
        /\ report[1].title_ok
        /\ report[1].meta_description_ok
        /\ report[1].warnings = <<>>

\* C24: what _clamp_title and _clamp_meta_description of the page generator
\* return is returned unchanged by the fixer's _smart_title and description
\* steps with the same default windows.
C24_GeneratedIsFixedPoint ==
    op \in {"_smart_title", "FixDescription"} => result = text

\* C16: with --dry-run no state of the run, the states between the steps on
\* one file included, has a file whose content on disk differs from its
\* content before the run.
C16_DryRunWritesNothing == args.dry_run => disk = disk0

\* C17: fix_file is invoked, at most once per file, exactly for the existing
\* files whose report entry has a non-empty list of warnings or of errors,
\* and a file with no such entry is never modified.
C17_FixedExactlyTheFlagged ==
    LET flagged == {report[i].file : i \in {j \in 1..Len(report) : Flagged(report[j])}}
    IN  /\ \A i, j \in 1..Len(calls) : calls[i] = calls[j] => i = j
        /\ \A i \in 1..Len(calls) : calls[i] \in flagged /\ calls[i] \in DOMAIN disk0
        /\ pc \in {"done", "crashed"} =>
              \A f \in flagged :
                  (f \in DOMAIN disk0 /\ disk0[f] # Directory) =>
                      \E i \in 1..Len(calls) : calls[i] = f
        /\ \A f \in DOMAIN disk0 \ flagged : disk[f] = disk0[f]

\* C18: without --apply no file under the root is created or modified,
\* whatever the number of planned replacements.
C18_DryRunByDefault == [][~args.apply => disk' = disk]_vars

C18_Witness ==
    /\ pc = "planned"
    /\ ~args.apply
    /\ Len(results) = 2
    /\ disk = disk0

\* C19: with --apply every file rewritten has, before it is overwritten, a
\* backup (name + backup suffix) that holds its content before the rewrite,
\* and after any number of runs the backup still holds the content the file
\* had before its first rewrite.
C19_BackupHoldsOriginal ==
    LET Rewrites == {k \in 1..Len(writes) : writes[k].old # None}
        First == {k \in Rewrites :
                    \A j \in Rewrites : writes[j].file = writes[k].file => k <= j}
        Backup(f) == BackupPath(f, args.backup_suffix)
    IN  /\ pc = "write" =>
              /\ Backup(Head(todo).file) \in DOMAIN disk
              /\ (\A k \in Rewrites : writes[k].file # Head(todo).file) =>
                     disk[Backup(Head(todo).file)] = disk[Head(todo).file]
        /\ \A k \in First :
              /\ Backup(writes[k].file) \in DOMAIN disk
              /\ disk[Backup(writes[k].file)] = writes[k].old

\* C25: after any number of process_file runs the file holds the Matomo
\* snippet at most once, and a run on a file that already holds it returns
\* False and does not write the file.
C25_MatomoInjectedOnce ==
    /\ [](\A f \in DOMAIN disk : SnippetCount(disk[f]) <= 1)
    /\ [][\A f \in DOMAIN disk :
            SnippetCount(ReadText(disk[f])) > 0 =>
                /\ disk' = disk
                /\ writes' = writes
                /\ results' = Append(results, FALSE)]_vars

\* The snippet was put into a page without it by the first run, and two
\* more runs returned False and left the file alone.
C25_Witness ==
    /\ Len(results) = 3
    /\ results = <<TRUE, FALSE, FALSE>>
    /\ Len(writes) = 1
    /\ SnippetCount(disk0["index.html"]) = 0
    /\ SnippetCount(disk["index.html"]) = 1

====
